---- MODULE Spec2Model ----
(***************************************************************************)
(* Realtime chat backend: Socket.IO gateway (RealtimeGateway), message     *)
(* service (MessagesService) and HTTP moderation controller                *)
(* (MessagesController), over a Prisma/PostgreSQL "Message" table.         *)
(*                                                                         *)
(* Optional JavaScript values (undefined / absent) are sequences of        *)
(* length 0 or 1: <<>> is undefined, <<v>> is the value v.  Strings whose  *)
(* characters matter (message content) are sequences of one-character      *)
(* strings.                                                                *)
(***************************************************************************)
EXTENDS Integers, Sequences, FiniteSets, Bags, TLC

VARIABLES
    secret,      \* process.env.JWT_ACCESS_SECRET: <<>> (unset) or <<key>>
    now,         \* wall clock (jwt expiry, CURRENT_TIMESTAMP of the table)
    conn,        \* conn[s]: "new" | "open" | "closed", the transport connection of socket s
    user,        \* user[s]: client.data.user, <<>> or <<[id, role]>>
    rooms,       \* rooms[s]: the Socket.IO rooms socket s is in
    inbox,       \* inbox[s]: the events emitted to the client of socket s, in order
    store,       \* the rows of the Message table
    nextId,      \* the next id the store assigns
    calls,       \* the bag of message.send handlers waiting in `await createMessage`
    microtasks,  \* the continuations of settled create promises, in FIFO order
    completed,   \* the rows the successful create calls returned, in return order
    lastAck,     \* <<v>>: this step a channel.join / message.send handler returned v; else <<>>
    removed,     \* the ids of the rows removed by flush or delete
    deletes,     \* the deleteMessageById calls between findUnique and delete
    httpResp     \* <<r>>: this step an HTTP request was answered with r; else <<>>

vars == <<secret, now, conn, user, rooms, inbox, store, nextId, calls, microtasks,
          completed, lastAck, removed, deletes, httpResp>>

----------------------------------------------------------------------------
(* Bounds of the model *)

\* the clock runs from 0 to MaxNow
MaxNow == 1
\* at most MaxSends messages are created or being created
MaxSends == 2
\* a socket receives at most MaxAuthErrors auth.error events
MaxAuthErrors == 2
\* at most MaxDeletes deleteMessageById calls are in flight at once
MaxDeletes == 1

\* the sockets that may connect
Sessions == {"s1", "s2"}

----------------------------------------------------------------------------
(* Types of the program *)

Role == {"USER", "ADMIN"}
ChannelKey == {"general", "support"}

\* the longest content message.send accepts
MaxContentLength == 500

\* the page size of a listing that names none
DefaultTake == 50

\* channel values a client may put in a body: the two keys and one that is no key
ChannelInputs == ChannelKey \cup {"lobby"}

\* content values a client may send; "#42" stands for a value that is not a string
NotAString == <<"#42">>
ContentInputs == { <<>>, <<" ">>, <<" ", "h", "i", " ">>, NotAString }

\* the key tokens are signed with, and another one
GoodKey == "k1"
BadKey == "k2"
AbsentRole == "(absent)"

\* bearer tokens: the key that signed it, the payload's sub and role, and exp
\* (<<>>: no exp claim)
Tokens ==
    { [key |-> GoodKey, sub |-> "alice", role |-> "USER",      exp |-> <<>>],
      [key |-> GoodKey, sub |-> "bob",   role |-> "ADMIN",     exp |-> <<1>>],
      [key |-> GoodKey, sub |-> "alice", role |-> AbsentRole,  exp |-> <<>>],
      [key |-> GoodKey, sub |-> "alice", role |-> "MODERATOR", exp |-> <<>>],
      [key |-> GoodKey, sub |-> "",      role |-> "ADMIN",     exp |-> <<>>],
      [key |-> BadKey,  sub |-> "bob",   role |-> "ADMIN",     exp |-> <<>>] }

\* an Authorization header value is prefix \o rest; rest is <<>> (empty) or <<token>>
Headers == { [prefix |-> p, rest |-> r] : p \in {"Bearer ", "Basic "},
                                          r \in {<<>>} \cup { <<t>> : t \in Tokens } }

\* a handshake: handshake.auth.token and handshake.headers.authorization
Handshakes == [ authToken : {<<>>} \cup { <<t>> : t \in Tokens },
                authorization : {<<>>} \cup { <<h>> : h \in Headers } ]

----------------------------------------------------------------------------
(* Credential verification *)

\* extractBearer: the token after "Bearer ", or undefined
extractBearer(auth) ==
    IF auth = <<>> THEN <<>>
    ELSE IF auth[1].prefix = "Bearer " THEN auth[1].rest ELSE <<>>

\* jwt.verify(token, secret): the payload, or <<>> when it throws
jwtVerify(token, key) ==
    IF token.key = key /\ (token.exp = <<>> \/ now < token.exp[1])
    THEN <<[sub |-> token.sub, role |-> token.role]>>
    ELSE <<>>

\* (mutant) the role claim is stored as it comes
wsRolePassThrough(payload) == payload.role

\* the role normalisation of handleConnection
wsRole(payload) ==
    IF payload.role = "ADMIN" \/ payload.role = "USER" THEN payload.role ELSE "USER"

\* the empty string in the place of a token
EmptyString == [key |-> "", sub |-> "", role |-> AbsentRole, exp |-> <<>>]

\* (mutant) the Authorization header comes before the handshake field
handshakeTokenHeaderFirst(hs) ==
    IF extractBearer(hs.authorization) # <<>> THEN extractBearer(hs.authorization)
    ELSE IF hs.authToken = <<EmptyString>> THEN <<>> ELSE hs.authToken

\* client.handshake.auth?.token || extractBearer(client.handshake.headers.authorization):
\* <<>> when neither gives a non-empty string
handshakeToken(hs) ==
    IF hs.authToken # <<>> /\ hs.authToken # <<EmptyString>> THEN hs.authToken
    ELSE extractBearer(hs.authorization)

\* (mutant) a refused handshake is announced under the name of the accepted one
authErrorAsOk(msg) == [user |-> <<>>, event |-> [type |-> "auth.ok", error |-> msg]]

\* handleConnection: [user, event], the value stored in client.data.user and the
\* event emitted to the client
authError(msg) == [user |-> <<>>, event |-> [type |-> "auth.error", error |-> msg]]

handleConnectionResult(hs) ==
    LET token == handshakeToken(hs)
    IN  IF secret = <<>> THEN authError("JWT_ACCESS_SECRET is not set")
        ELSE IF token = <<>> THEN authError("Missing token")
        ELSE LET payload == jwtVerify(token[1], secret[1])
             IN  IF payload = <<>> THEN authError("JWT verify failed")
                 ELSE IF payload[1].sub = "" THEN authError("Invalid token payload")
                 ELSE [user  |-> <<[id |-> payload[1].sub, role |-> wsRole(payload[1])]>>,
                       event |-> [type |-> "auth.ok", id |-> payload[1].sub,
                                  role |-> wsRole(payload[1])]]

\* getUserFromReq of the HTTP controller: <<[id, role]>> or <<>> (null)
getUserFromReq(authorization) ==
    LET token == extractBearer(authorization)
    IN  IF secret = <<>> \/ token = <<>> THEN <<>>
        ELSE LET payload == jwtVerify(token[1], secret[1])
             IN  IF payload = <<>> THEN <<>>
                 ELSE IF payload[1].sub = ""
                         \/ ~(payload[1].role = "ADMIN" \/ payload[1].role = "USER")
                      THEN <<>>
                      ELSE <<[id |-> payload[1].sub, role |-> payload[1].role]>>

----------------------------------------------------------------------------
(* Access policy *)

\* (mutant) the check of the support channel is missing
assertChannelAccessOpen(channel, role) == TRUE

\* (mutant) every channel has its one role: general is for USER only
assertChannelAccessByRole(channel, role) ==
    IF channel = "support" THEN role = "ADMIN" ELSE role = "USER"

\* assertChannelAccess: TRUE when it returns, FALSE when it throws Forbidden
assertChannelAccess(channel, role) == ~(channel = "support" /\ role # "ADMIN")

\* (mutant) every verified role passes the administrator check
assertAdminAnyRole(role) == TRUE

\* assertAdmin: TRUE when it returns, FALSE when it throws Forbidden
assertAdmin(role) == role = "ADMIN"

----------------------------------------------------------------------------
(* Content *)

\* String.prototype.trim on a sequence of characters (blank: " ")
RECURSIVE trimStart(_)
trimStart(str) ==
    IF str # <<>> /\ Head(str) = " " THEN trimStart(Tail(str)) ELSE str

RECURSIVE trimEnd(_)
trimEnd(str) ==
    IF str # <<>> /\ str[Len(str)] = " " THEN trimEnd(SubSeq(str, 1, Len(str) - 1))
    ELSE str

trim(str) == trimEnd(trimStart(str))

----------------------------------------------------------------------------
(* Message store (prisma.message) *)

\* prisma.message.create accepts the row: channelKey is a value of the enum
createAccepts(data) == data.channelKey \in ChannelKey

\* the row create inserts and returns: id and createdAt are assigned by the store
createdRow(data) ==
    [id |-> nextId, channelKey |-> data.channelKey, authorId |-> data.authorId,
     authorRole |-> data.authorRole, content |-> data.content, createdAt |-> now]

\* the rows of a channel
rowsOf(channelKey) == { m \in store : m.channelKey = channelKey }

\* findUnique({where: {id}})
findUnique(id) == { m \in store : m.id = id }

\* findMany orderBy createdAt desc: every order of the rows with createdAt not
\* increasing (rows of one createdAt come in any order)
RECURSIVE orderings(_)
orderings(rows) ==
    IF rows = {} THEN { <<>> }
    ELSE UNION { { <<m>> \o rest : rest \in orderings(rows \ {m}) } :
                 m \in { x \in rows : \A y \in rows : y.createdAt <= x.createdAt } }

\* the position of the row with this id in a sequence of rows, 0 when absent
indexOfId(seq, id) ==
    IF \E i \in 1..Len(seq) : seq[i].id = id
    THEN CHOOSE i \in 1..Len(seq) : seq[i].id = id
    ELSE 0

Min(a, b) == IF a <= b THEN a ELSE b

\* the possible pages for a cursor whose row is stored in another channel, a
\* case the where clause and the cursor leave open: nothing, or the rows of the
\* listed channel from the cursor row's createdAt on, less the skipped first
cursorOutsidePages(channelKey, take, id) ==
    { <<>> } \cup
    UNION { { SubSeq(all, 2, Min(1 + take, Len(all))) :
                all \in orderings({ r \in rowsOf(channelKey) : r.createdAt <= m.createdAt }) }
            : m \in findUnique(id) }

\* listMessages({channelKey, take, cursor}): the possible results; cursor is
\* <<>> or <<id>>; with a cursor the page starts after the cursor's row, and is
\* empty when no stored row has that id
listMessages(channelKey, take, cursor) ==
    { IF cursor = <<>>
      THEN SubSeq(all, 1, Min(take, Len(all)))
      ELSE IF indexOfId(all, cursor[1]) = 0 THEN <<>>
           ELSE SubSeq(all, indexOfId(all, cursor[1]) + 1,
                       Min(indexOfId(all, cursor[1]) + take, Len(all)))
      : all \in orderings(rowsOf(channelKey)) }
    \cup (IF cursor # <<>> /\ findUnique(cursor[1]) \ rowsOf(channelKey) # {}
          THEN cursorOutsidePages(channelKey, take, cursor[1])
          ELSE {})

----------------------------------------------------------------------------
(* Initial state: the process has started, nobody is connected, the table is
   empty; the secret is configured or not *)

Init ==
    /\ secret \in { <<>>, <<GoodKey>> }
    /\ now = 0
    /\ conn = [s \in Sessions |-> "new"]
    /\ user = [s \in Sessions |-> <<>>]
    /\ rooms = [s \in Sessions |-> {}]
    /\ inbox = [s \in Sessions |-> <<>>]
    /\ store = {}
    /\ nextId = 1
    /\ calls = EmptyBag
    /\ microtasks = <<>>
    /\ completed = <<>>
    /\ lastAck = <<>>
    /\ removed = {}
    /\ deletes = [i \in {} |-> 0]
    /\ httpResp = <<>>

gatewayVars == <<conn, user, rooms, inbox, calls, microtasks, completed>>
storeVars == <<store, nextId, removed>>

\* a step that returns no ack and answers no HTTP request
noAck == lastAck' = <<>>
noResponse == httpResp' = <<>>

\* a handler starts only when no continuation is waiting to run
idle == microtasks = <<>>

\* the clock advances
Tick ==
    /\ now < MaxNow
    /\ now' = now + 1
    /\ noAck /\ noResponse
    /\ UNCHANGED <<secret, gatewayVars, storeVars, deletes>>

----------------------------------------------------------------------------
(* RealtimeGateway *)

\* client.emit(event)
emitTo(s, event) == [inbox EXCEPT ![s] = Append(@, event)]

\* (mutant) server.emit(event): every connected socket receives the event
emitToRoomAll(room, event) ==
    [t \in Sessions |-> IF conn[t] = "open" THEN Append(inbox[t], event) ELSE inbox[t]]

\* server.to(room).emit(event): every socket in the room receives the event once
emitToRoom(room, event) ==
    [t \in Sessions |-> IF room \in rooms[t] THEN Append(inbox[t], event) ELSE inbox[t]]

authErrorCount(s) ==
    Len(SelectSeq(inbox[s], LAMBDA e : e.type = "auth.error"))

\* (mutant) a failure leaves the handler as an exception, and no ack is sent
ackUnlessThrown(s, value) == IF value.ok THEN <<[sock |-> s, value |-> value]>> ELSE <<>>

\* the value a handler returns, which Socket.IO sends to its client s as the ack
ack(s, value) == <<[sock |-> s, value |-> value]>>

\* (mutant) a socket without a user is served as a guest
getUserOrFailGuest(s) == IF user[s] = <<>> THEN <<[id |-> "guest", role |-> "USER"]>> ELSE user[s]

\* (mutant) the user is dropped once the clock has reached 1, when the
\* expiring token no longer verifies
getUserOrFailExpiring(s) == IF now >= 1 THEN <<>> ELSE user[s]

\* getUserOrFail(client): client.data.user (<<>>: null, and auth.error is emitted)
getUserOrFail(s) == user[s]

\* handleConnection(client)
Connect(s, hs) ==
    /\ idle
    /\ conn[s] = "new"
    /\ conn' = [conn EXCEPT ![s] = "open"]
    /\ user' = [user EXCEPT ![s] = handleConnectionResult(hs).user]
    /\ inbox' = emitTo(s, handleConnectionResult(hs).event)
    /\ noAck /\ noResponse
    /\ UNCHANGED <<secret, now, rooms, calls, microtasks, completed, storeVars, deletes>>

\* (mutant) the socket stays in its rooms
leaveAllKeep(s) == rooms

\* the rooms after Socket.IO took the closed socket s out of all of them
leaveAll(s) == [rooms EXCEPT ![s] = {}]

\* the transport closes: Socket.IO takes the socket out of its rooms, then
\* handleDisconnect(client) runs, which does nothing
Disconnect(s) ==
    /\ idle
    /\ conn[s] = "open"
    /\ conn' = [conn EXCEPT ![s] = "closed"]
    /\ rooms' = leaveAll(s)
    /\ noAck /\ noResponse
    /\ UNCHANGED <<secret, now, user, inbox, calls, microtasks, completed, storeVars, deletes>>

\* (mutant) server.socketsJoin(channel): every socket enters the room
joinRoomAll(s, channel) == [t \in Sessions |-> rooms[t] \cup {channel}]

\* (mutant) the socket leaves its other rooms when it enters one
joinRoomExclusive(s, channel) == [rooms EXCEPT ![s] = {channel}]

\* client.join(channel): the rooms after socket s entered the room
joinRoom(s, channel) == [rooms EXCEPT ![s] = @ \cup {channel}]

\* the message of the TypeError that reading body.channel of no body throws
MissingBodyMessage == "Cannot read properties of undefined (reading 'channel')"

\* (mutant) the catch answers with its code, whatever was thrown
catchMessageGeneric(e, fallback) == fallback

\* e?.message ?? fallback of the catch blocks; e is <<>> (no message) or <<message>>
catchMessage(e, fallback) == IF e = <<>> THEN fallback ELSE e[1]

\* join(client, body); body is <<>> (no body) or <<[channel]>>
Join(s, body) ==
    /\ idle
    /\ conn[s] = "open"
    /\ noResponse
    /\ UNCHANGED <<secret, now, conn, user, calls, microtasks, completed, storeVars, deletes>>
    /\ IF getUserOrFail(s) = <<>>
       THEN /\ authErrorCount(s) < MaxAuthErrors
            /\ inbox' = emitTo(s, [type |-> "auth.error", error |-> "UNAUTHORIZED"])
            /\ lastAck' = ack(s, [ok |-> FALSE, error |-> "UNAUTHORIZED"])
            /\ UNCHANGED rooms
       ELSE IF body = <<>>
       THEN /\ lastAck' = ack(s, [ok |-> FALSE,
                                 error |-> catchMessage(<<MissingBodyMessage>>, "JOIN_FAILED")])
            /\ UNCHANGED <<rooms, inbox>>
       ELSE IF ~assertChannelAccess(body[1].channel, getUserOrFail(s)[1].role)
       THEN /\ lastAck' = ack(s, [ok |-> FALSE,
                                 error |-> catchMessage(<<"No access to support channel">>,
                                                        "JOIN_FAILED")])
            /\ UNCHANGED <<rooms, inbox>>
       ELSE /\ rooms' = joinRoom(s, body[1].channel)
            /\ lastAck' = ack(s, [ok |-> TRUE, joined |-> body[1].channel])
            /\ UNCHANGED inbox

\* the bodies a client may send with channel.join and message.send
JoinBodies == {<<>>} \cup { <<[channel |-> c]>> : c \in ChannelInputs }
SendBodies == {<<>>} \cup { <<[channel |-> c, content |-> x]>> :
                            c \in ChannelInputs,
                            x \in {<<>>} \cup { <<y>> : y \in ContentInputs } }

\* (mutant) the content is not trimmed
trimmedContentRaw(content) ==
    IF content = <<>> THEN << <<>> >>
    ELSE IF content[1] = NotAString THEN <<>>
    ELSE << content[1] >>

\* (body.content ?? '').trim(): <<>> when .trim is not a function
trimmedContent(content) ==
    IF content = <<>> THEN << <<>> >>
    ELSE IF content[1] = NotAString THEN <<>>
    ELSE << trim(content[1]) >>

\* (mutant) the length check is off by one
invalidContentStrict(content) == content = <<>> \/ Len(content) >= MaxContentLength

\* the content check of send: TRUE when the trimmed content is refused
invalidContent(content) == content = <<>> \/ Len(content) > MaxContentLength

\* (mutant) the content is checked before the access to the channel
SendStartContentFirst(s, body) ==
    /\ idle
    /\ conn[s] = "open"
    /\ noResponse
    /\ UNCHANGED <<secret, now, conn, user, rooms, microtasks, completed, storeVars, deletes>>
    /\ IF getUserOrFail(s) = <<>>
       THEN /\ authErrorCount(s) < MaxAuthErrors
            /\ inbox' = emitTo(s, [type |-> "auth.error", error |-> "UNAUTHORIZED"])
            /\ lastAck' = ack(s, [ok |-> FALSE, error |-> "UNAUTHORIZED"])
            /\ UNCHANGED calls
       ELSE IF body = <<>>
       THEN /\ lastAck' = ack(s, [ok |-> FALSE,
                                 error |-> catchMessage(<<MissingBodyMessage>>, "SEND_FAILED")])
            /\ UNCHANGED <<calls, inbox>>
       ELSE IF trimmedContent(body[1].content) = <<>>
       THEN /\ lastAck' = ack(s, [ok |-> FALSE,
                                 error |-> catchMessage(<<"trim is not a function">>,
                                                        "SEND_FAILED")])
            /\ UNCHANGED <<calls, inbox>>
       ELSE IF invalidContent(trimmedContent(body[1].content)[1])
       THEN /\ lastAck' = ack(s, [ok |-> FALSE, error |-> "Invalid content"])
            /\ UNCHANGED <<calls, inbox>>
       ELSE IF ~assertChannelAccess(body[1].channel, getUserOrFail(s)[1].role)
       THEN /\ lastAck' = ack(s, [ok |-> FALSE,
                                 error |-> catchMessage(<<"No access to support channel">>,
                                                        "SEND_FAILED")])
            /\ UNCHANGED <<calls, inbox>>
       ELSE /\ BagCardinality(calls) + Len(microtasks) + (nextId - 1) < MaxSends
            /\ calls' = calls (+) SetToBag({
                   [sock  |-> s,
                    body  |-> body[1],
                    data  |-> [channelKey |-> body[1].channel,
                               authorId   |-> getUserOrFail(s)[1].id,
                               authorRole |-> getUserOrFail(s)[1].role,
                               content    |-> trimmedContent(body[1].content)[1]],
                    state |-> "dispatched",
                    saved |-> <<>>] })
            /\ noAck
            /\ UNCHANGED inbox

\* send(client, body) up to the await of createMessage: the checks, then the
\* create call is issued; body is <<>> (no body) or <<[channel, content]>>
SendStart(s, body) ==
    /\ idle
    /\ conn[s] = "open"
    /\ noResponse
    /\ UNCHANGED <<secret, now, conn, user, rooms, microtasks, completed, storeVars, deletes>>
    /\ IF getUserOrFail(s) = <<>>
       THEN /\ authErrorCount(s) < MaxAuthErrors
            /\ inbox' = emitTo(s, [type |-> "auth.error", error |-> "UNAUTHORIZED"])
            /\ lastAck' = ack(s, [ok |-> FALSE, error |-> "UNAUTHORIZED"])
            /\ UNCHANGED calls
       ELSE IF body = <<>>
       THEN /\ lastAck' = ack(s, [ok |-> FALSE,
                                 error |-> catchMessage(<<MissingBodyMessage>>, "SEND_FAILED")])
            /\ UNCHANGED <<calls, inbox>>
       ELSE IF ~assertChannelAccess(body[1].channel, getUserOrFail(s)[1].role)
       THEN /\ lastAck' = ack(s, [ok |-> FALSE,
                                 error |-> catchMessage(<<"No access to support channel">>,
                                                        "SEND_FAILED")])
            /\ UNCHANGED <<calls, inbox>>
       ELSE IF trimmedContent(body[1].content) = <<>>
       THEN /\ lastAck' = ack(s, [ok |-> FALSE,
                                 error |-> catchMessage(<<"trim is not a function">>,
                                                        "SEND_FAILED")])
            /\ UNCHANGED <<calls, inbox>>
       ELSE IF invalidContent(trimmedContent(body[1].content)[1])
       THEN /\ lastAck' = ack(s, [ok |-> FALSE, error |-> "Invalid content"])
            /\ UNCHANGED <<calls, inbox>>
       ELSE /\ BagCardinality(calls) + Len(microtasks) + (nextId - 1) < MaxSends
            /\ calls' = calls (+) SetToBag({
                   [sock  |-> s,
                    body  |-> body[1],
                    data  |-> [channelKey |-> body[1].channel,
                               authorId   |-> getUserOrFail(s)[1].id,
                               authorRole |-> getUserOrFail(s)[1].role,
                               content    |-> trimmedContent(body[1].content)[1]],
                    state |-> "dispatched",
                    saved |-> <<>>] })
            /\ noAck
            /\ UNCHANGED inbox

\* call c of the bag replaced by d
replaceCall(c, d) == (calls (-) SetToBag({c})) (+) SetToBag({d})

\* the store executes the prisma.message.create of call c: the row is inserted, or
\* the call fails and nothing is inserted
DbCreate(c) ==
    /\ c.state = "dispatched"
    /\ \/ /\ createAccepts(c.data)
          /\ store' = store \cup {createdRow(c.data)}
          /\ nextId' = nextId + 1
          /\ calls' = replaceCall(c, [c EXCEPT !.state = "responded",
                                               !.saved = <<createdRow(c.data)>>])
       \/ /\ calls' = replaceCall(c, [c EXCEPT !.state = "responded"])
          /\ UNCHANGED <<store, nextId>>
    /\ noAck /\ noResponse
    /\ UNCHANGED <<secret, now, conn, user, rooms, inbox, microtasks, completed,
                   removed, deletes>>

\* the promise of call c settles: the create call returns, and the rest of the
\* handler is queued behind the continuations already waiting
Settle(c) ==
    /\ c.state = "responded"
    /\ calls' = calls (-) SetToBag({c})
    /\ microtasks' = Append(microtasks, c)
    /\ completed' = IF c.saved # <<>> THEN Append(completed, c.saved[1]) ELSE completed
    /\ noAck /\ noResponse
    /\ UNCHANGED <<secret, now, conn, user, rooms, inbox, storeVars, deletes>>

\* (mutant) the newest continuation runs first
nextMicrotaskLast == Len(microtasks)

\* the position in the queue of the continuation that runs next: the oldest
nextMicrotask == 1

\* the sequence without its i-th element
removeAt(seq, i) == SubSeq(seq, 1, i - 1) \o SubSeq(seq, i + 1, Len(seq))

\* (mutant) the catch swallows the failure of the store
sendAckSwallow(call) ==
    [ok |-> TRUE, messageId |-> IF call.saved # <<>> THEN call.saved[1].id ELSE 0]

\* (mutant) the ack refuses a sender that is not in the room of the channel
sendAckMembersOnly(call) ==
    IF call.data.channelKey \notin rooms[call.sock]
    THEN [ok |-> FALSE, error |-> "Not a member"]
    ELSE IF call.saved # <<>>
    THEN [ok |-> TRUE, messageId |-> call.saved[1].id]
    ELSE [ok |-> FALSE, error |-> "PersistenceError"]

\* the value send returns after the await
sendAck(call) ==
    IF call.saved # <<>>
    THEN [ok |-> TRUE, messageId |-> call.saved[1].id]
    ELSE [ok |-> FALSE, error |-> "PersistenceError"]

\* (mutant) the broadcast does not depend on the outcome of the create call
sendBroadcastUnconditional(call) ==
    emitToRoom(call.data.channelKey,
               [type |-> "message.new",
                msg  |-> IF call.saved # <<>> THEN call.saved[1]
                         ELSE [id |-> 0, channelKey |-> call.data.channelKey,
                               authorId |-> call.data.authorId,
                               authorRole |-> call.data.authorRole,
                               content |-> call.data.content, createdAt |-> now]])

\* (mutant) nothing is broadcast once the sender has disconnected
sendBroadcastIfConnected(call) ==
    IF call.saved # <<>> /\ conn[call.sock] = "open"
    THEN emitToRoom(call.data.channelKey, [type |-> "message.new", msg |-> call.saved[1]])
    ELSE inbox

\* (mutant) client.to(room).emit: the room without the sender
sendBroadcastExceptSender(call) ==
    IF call.saved # <<>>
    THEN [t \in Sessions |->
            IF call.data.channelKey \in rooms[t] /\ t # call.sock
            THEN Append(inbox[t], [type |-> "message.new", msg |-> call.saved[1]])
            ELSE inbox[t]]
    ELSE inbox

\* (mutant) the message is also emitted to the sender's own socket
sendBroadcastWithEcho(call) ==
    IF call.saved # <<>>
    THEN [t \in Sessions |->
            IF call.data.channelKey \in rooms[t] \/ t = call.sock
            THEN Append(inbox[t], [type |-> "message.new", msg |-> call.saved[1]])
            ELSE inbox[t]]
    ELSE inbox

\* the events send emits after the await: message.new to the room of the
\* channel when the create call succeeded, nothing when it threw
sendBroadcast(call) ==
    IF call.saved # <<>>
    THEN emitToRoom(call.data.channelKey, [type |-> "message.new", msg |-> call.saved[1]])
    ELSE inbox

\* send after the await of createMessage: broadcast and ack, or the catch
SendResume ==
    /\ microtasks # <<>>
    /\ inbox' = sendBroadcast(microtasks[nextMicrotask])
    /\ lastAck' = ack(microtasks[nextMicrotask].sock, sendAck(microtasks[nextMicrotask]))
    /\ microtasks' = removeAt(microtasks, nextMicrotask)
    /\ noResponse
    /\ UNCHANGED <<secret, now, conn, user, rooms, calls, completed, storeVars, deletes>>

----------------------------------------------------------------------------
(* MessagesController: flush and deleteOne *)

AuthorizationInputs == {<<>>} \cup { <<h>> : h \in Headers }

response(status, body) == <<[status |-> status, body |-> body]>>

\* the in-flight deleteMessageById calls for a message id
pendingDeletes(id) == IF id \in DOMAIN deletes THEN deletes[id] ELSE 0

RECURSIVE sumDeletes(_)
sumDeletes(ids) ==
    IF ids = {} THEN 0
    ELSE LET id == CHOOSE x \in ids : TRUE
         IN  deletes[id] + sumDeletes(ids \ {id})

\* (mutant) deleteMany without its where clause
flushedEveryChannel(channel) == store

\* the rows deleteMany({where: {channelKey}}) of flushChannel deletes
flushed(channel) == rowsOf(channel)

\* (mutant) the flush is announced to the room of the channel
FlushNotifying(authorization, channel) ==
    /\ idle
    /\ noAck
    /\ UNCHANGED <<secret, now, conn, user, rooms, calls, microtasks, completed, nextId, deletes>>
    /\ IF getUserFromReq(authorization) = <<>>
       THEN /\ httpResp' = response(200, [ok |-> FALSE, error |-> "UNAUTHORIZED"])
            /\ UNCHANGED <<store, removed, inbox>>
       ELSE IF ~assertAdmin(getUserFromReq(authorization)[1].role)
       THEN /\ httpResp' = response(403, [error |-> "ADMIN only"])
            /\ UNCHANGED <<store, removed, inbox>>
       ELSE IF channel \notin ChannelKey
       THEN /\ httpResp' = response(500, [error |-> "Internal server error"])
            /\ UNCHANGED <<store, removed, inbox>>
       ELSE /\ store' = store \ flushed(channel)
            /\ removed' = removed \cup { m.id : m \in flushed(channel) }
            /\ httpResp' = response(200, [deleted |-> Cardinality(flushed(channel)),
                                          channelKey |-> channel])
            /\ inbox' = emitToRoom(channel, [type |-> "channel.flushed"])

\* flush(channel, req) with flushChannel
Flush(authorization, channel) ==
    /\ idle
    /\ noAck
    /\ UNCHANGED <<secret, now, gatewayVars, nextId, deletes>>
    /\ IF getUserFromReq(authorization) = <<>>
       THEN /\ httpResp' = response(200, [ok |-> FALSE, error |-> "UNAUTHORIZED"])
            /\ UNCHANGED <<store, removed>>
       ELSE IF ~assertAdmin(getUserFromReq(authorization)[1].role)
       THEN /\ httpResp' = response(403, [error |-> "ADMIN only"])
            /\ UNCHANGED <<store, removed>>
       ELSE IF channel \notin ChannelKey
       THEN /\ httpResp' = response(500, [error |-> "Internal server error"])
            /\ UNCHANGED <<store, removed>>
       ELSE /\ store' = store \ flushed(channel)
            /\ removed' = removed \cup { m.id : m \in flushed(channel) }
            /\ httpResp' = response(200, [deleted |-> Cardinality(flushed(channel)),
                                          channelKey |-> channel])

\* deleteOne(id, req) up to the await of findUnique's result
DeleteFind(authorization, id) ==
    /\ idle
    /\ noAck
    /\ UNCHANGED <<secret, now, gatewayVars, storeVars>>
    /\ IF getUserFromReq(authorization) = <<>>
       THEN /\ httpResp' = response(200, [ok |-> FALSE, error |-> "UNAUTHORIZED"])
            /\ UNCHANGED deletes
       ELSE IF ~assertAdmin(getUserFromReq(authorization)[1].role)
       THEN /\ httpResp' = response(403, [error |-> "ADMIN only"])
            /\ UNCHANGED deletes
       ELSE IF findUnique(id) = {}
       THEN /\ httpResp' = response(404, [error |-> "Message not found"])
            /\ UNCHANGED deletes
       ELSE /\ sumDeletes(DOMAIN deletes) < MaxDeletes
            /\ deletes' = [j \in DOMAIN deletes \cup {id} |-> 
                             IF j = id THEN pendingDeletes(id) + 1 ELSE deletes[j]]
            /\ noResponse

\* (mutant) a delete whose row is gone is answered as done
DeleteExecIdempotent(id) ==
    /\ idle
    /\ noAck
    /\ UNCHANGED <<secret, now, gatewayVars, nextId>>
    /\ pendingDeletes(id) > 0
    /\ deletes' = [deletes EXCEPT ![id] = @ - 1]
    /\ httpResp' = response(200, [deleted |-> TRUE, id |-> id, channelKey |-> "general"])
    /\ store' = store \ findUnique(id)
    /\ removed' = removed \cup {id}

\* deleteMessageById after findUnique found the row: prisma.message.delete, which
\* throws when the row is gone
DeleteExec(id) ==
    /\ idle
    /\ noAck
    /\ UNCHANGED <<secret, now, gatewayVars, nextId>>
    /\ pendingDeletes(id) > 0
    /\ deletes' = [deletes EXCEPT ![id] = @ - 1]
    /\ IF findUnique(id) # {}
       THEN /\ store' = store \ findUnique(id)
            /\ removed' = removed \cup {id}
            /\ httpResp' = response(200,
                   [deleted |-> TRUE, id |-> id,
                    channelKey |-> (CHOOSE m \in findUnique(id) : TRUE).channelKey])
       ELSE /\ httpResp' = response(500, [error |-> "Internal server error"])
            /\ UNCHANGED <<store, removed>>

\* ListMessagesQueryDto: the query passes its validation; take is <<>> or
\* <<n>>, cursor is <<>> or <<id>>
validQuery(q) ==
    /\ q.channel \in {"general", "support"}
    /\ \A i \in 1..Len(q.take) : q.take[i] >= 1 /\ q.take[i] <= 100

\* the answer to a query that does not pass the validation of its DTO
badRequest == response(400, [error |-> "Bad Request"])

\* (mutant) the page size of the query is dropped
listTakeUnlimited(take) == MaxContentLength

\* q.take ?? 50
listTake(take) == IF take = <<>> THEN DefaultTake ELSE take[1]

\* list(q, req) with listMessages; the body of the answer is the array of rows,
\* held in the field messages
List(authorization, q) ==
    /\ idle
    /\ noAck
    /\ UNCHANGED <<secret, now, gatewayVars, storeVars, deletes>>
    /\ IF ~validQuery(q) THEN httpResp' = badRequest
       ELSE IF getUserFromReq(authorization) = <<>>
       THEN httpResp' = response(200, [ok |-> FALSE, error |-> "UNAUTHORIZED"])
       ELSE IF ~assertChannelAccess(q.channel, getUserFromReq(authorization)[1].role)
       THEN httpResp' = response(403, [error |-> "No access to support channel"])
       ELSE \E page \in listMessages(q.channel, listTake(q.take), q.cursor) :
               httpResp' = response(200, [messages |-> page])

----------------------------------------------------------------------------

\* one step of the gateway, with the sockets that connect and the inputs their
\* clients choose drawn from the given sets
GatewayStep(sessions, handshakes, joinBodies, sendBodies) ==
    \/ \E s \in sessions, hs \in handshakes : Connect(s, hs)
    \/ \E s \in sessions : Disconnect(s)
    \/ \E s \in sessions, body \in joinBodies : Join(s, body)
    \/ \E s \in sessions, body \in sendBodies : SendStart(s, body)
    \/ \E c \in BagToSet(calls) : DbCreate(c)
    \/ \E c \in BagToSet(calls) : Settle(c)
    \/ SendResume

\* one step of the HTTP controller
HttpStep(authorizations, channels) ==
    \/ \E a \in authorizations, c \in channels : Flush(a, c)
    \/ \E a \in authorizations, id \in 1..nextId : DeleteFind(a, id)
    \/ \E id \in DOMAIN deletes : DeleteExec(id)

\* the inputs of the specifications: a USER token in the handshake field, an
\* ADMIN token (expiring at 1) in the Authorization header, a token signed with
\* another key; the two channel keys; content with blanks around it
UserToken == [key |-> GoodKey, sub |-> "alice", role |-> "USER", exp |-> <<>>]
AdminToken == [key |-> GoodKey, sub |-> "bob", role |-> "ADMIN", exp |-> <<1>>]
ForgedToken == [key |-> BadKey, sub |-> "bob", role |-> "ADMIN", exp |-> <<>>]
bearer(t) == <<[prefix |-> "Bearer ", rest |-> <<t>>]>>

ValidHandshakes ==
    { [authToken |-> <<UserToken>>, authorization |-> <<>>],
      [authToken |-> <<>>, authorization |-> bearer(AdminToken)] }
CoreHandshakes ==
    ValidHandshakes \cup { [authToken |-> <<ForgedToken>>, authorization |-> <<>>] }
CoreJoinBodies == { <<[channel |-> c]>> : c \in ChannelKey }
CoreSendBodies == { <<[channel |-> c, content |-> << <<" ", "h", "i", " ">> >>]>> :
                    c \in ChannelKey }
CoreAuthorizations == { bearer(UserToken), bearer(AdminToken) }

\* The live-connection path: two sockets, their handshakes, joins and sends
Next == GatewayStep(Sessions, CoreHandshakes, CoreJoinBodies, CoreSendBodies)

Spec == Init /\ [][Next]_vars

\* The live-connection path of one socket, which joins general and sends to both
\* channels, together with the moderation requests of an administrator
NextMod ==
    \/ GatewayStep({"s1"}, ValidHandshakes, {<<[channel |-> "general"]>>}, CoreSendBodies)
    \/ HttpStep({bearer(AdminToken)}, ChannelKey)

SpecMod == Init /\ [][NextMod]_vars

\* The live-connection path of one socket with every handshake and every body,
\* while the clock advances
NextInputs ==
    \/ Tick
    \/ GatewayStep({"s1"}, Handshakes, JoinBodies, SendBodies)

SpecInputs == Init /\ [][NextInputs]_vars

\* The live-connection path of two sockets on channel general, with the
\* scheduling of the runtime: the response of
\* the store for each created row is delivered to its promise, and a queued
\* continuation runs
SettleCreated(id) ==
    \E c \in BagToSet(calls) : c.saved # <<>> /\ c.saved[1].id = id /\ Settle(c)

NextLive ==
    GatewayStep(Sessions, ValidHandshakes, {<<[channel |-> "general"]>>},
                {<<[channel |-> "general", content |-> << <<" ", "h", "i", " ">> >>]>>})

SpecLive ==
    /\ Init /\ [][NextLive]_vars
    /\ \A id \in 1..MaxSends : WF_vars(SettleCreated(id))
    /\ WF_vars(SendResume)

\* The live-connection path of one socket of a USER on channel general, whose
\* sends carry content at the limits of the content check
xs(n) == [i \in 1..n |-> "x"]

BoundaryContents ==
    { <<>>, <<" ">>, <<"x">>, xs(MaxContentLength), xs(MaxContentLength + 1),
      <<" ">> \o xs(MaxContentLength) \o <<" ">>,
      <<" ">> \o xs(MaxContentLength + 1) }

BoundaryBodies ==
    { <<[channel |-> "general", content |-> x]>> :
         x \in {<<>>} \cup { <<y>> : y \in BoundaryContents } }

NextContent ==
    GatewayStep({"s1"}, {[authToken |-> <<UserToken>>, authorization |-> <<>>]},
                {<<[channel |-> "general"]>>}, BoundaryBodies)

SpecContent == Init /\ [][NextContent]_vars

\* The two verifiers: one socket and the flush requests, with tokens of one
\* subject per role claim, in the handshake field or in the Authorization
\* header, while the clock advances
AuthTokens ==
    { UserToken, AdminToken, ForgedToken,
      [key |-> GoodKey, sub |-> "carol", role |-> "MODERATOR", exp |-> <<>>],
      [key |-> GoodKey, sub |-> "dave",  role |-> AbsentRole,  exp |-> <<>>],
      [key |-> GoodKey, sub |-> "erin",  role |-> "admin",     exp |-> <<>>],
      [key |-> GoodKey, sub |-> "",      role |-> "ADMIN",     exp |-> <<>>] }

AuthHandshakes ==
    { [authToken |-> <<>>, authorization |-> <<>>] }
    \cup { [authToken |-> <<t>>, authorization |-> <<>>] : t \in AuthTokens }
    \cup { [authToken |-> <<>>, authorization |-> bearer(t)] : t \in AuthTokens }

NextAuth ==
    \/ Tick
    \/ GatewayStep({"s1"}, AuthHandshakes, CoreJoinBodies,
                   {<<[channel |-> "general", content |-> << <<" ", "h", "i", " ">> >>]>>})
    \/ \E t \in AuthTokens, c \in ChannelKey : Flush(bearer(t), c)

SpecAuth == Init /\ [][NextAuth]_vars

\* The live-connection path of two sockets with accepted handshakes, which
\* join both channels and send to general, together with the flush requests
\* of an administrator on general
NextRooms ==
    \/ GatewayStep(Sessions, ValidHandshakes, CoreJoinBodies,
                   {<<[channel |-> "general", content |-> << <<" ", "h", "i", " ">> >>]>>})
    \/ Flush(bearer(AdminToken), "general")

SpecRooms == Init /\ [][NextRooms]_vars

\* The moderation requests under every kind of credential: no header, a header
\* of another scheme, tokens of a USER, of an ADMIN (one of them expired), of a
\* role the service does not know and of another key; beside them one socket
\* of an administrator, which sends to general
HttpAuthorizations ==
    { <<>>, <<[prefix |-> "Basic ", rest |-> <<AdminToken>>]>>,
      bearer(UserToken), bearer(AdminToken), bearer(ForgedToken),
      bearer([key |-> GoodKey, sub |-> "bob", role |-> "ADMIN", exp |-> <<0>>]),
      bearer([key |-> GoodKey, sub |-> "carol", role |-> "MODERATOR", exp |-> <<>>]) }

NextHttp ==
    \/ GatewayStep({"s1"}, {[authToken |-> <<>>, authorization |-> bearer(AdminToken)]},
                   {<<[channel |-> "general"]>>},
                   {<<[channel |-> "general", content |-> << <<" ", "h", "i", " ">> >>]>>})
    \/ HttpStep(HttpAuthorizations, {"general"})

SpecHttp == Init /\ [][NextHttp]_vars

\* The flush requests of an administrator on both channels, beside one socket
\* of an administrator, which sends to both channels
NextFlush ==
    \/ GatewayStep({"s1"}, {[authToken |-> <<>>, authorization |-> bearer(AdminToken)]},
                   {<<[channel |-> "general"]>>}, CoreSendBodies)
    \/ \E c \in ChannelKey : Flush(bearer(AdminToken), c)

SpecFlush == Init /\ [][NextFlush]_vars

\* The listing requests: without a header, with the token of a USER and with
\* the token of an ADMIN; on the two channels and on a value that is no channel,
\* with page sizes inside and outside 1..100 and none, from the start and from
\* a cursor; beside them the sends of one socket of an administrator to both
\* channels, while the clock advances
ListAuthorizations == { <<>>, bearer(UserToken), bearer(AdminToken) }

ListQueries ==
    [ channel : ChannelInputs,
      take    : { <<>>, <<1>>, <<101>> },
      cursor  : { <<>>, <<1>> } ]

NextList ==
    \/ Tick
    \/ Connect("s1", [authToken |-> <<>>, authorization |-> bearer(AdminToken)])
    \/ \E body \in CoreSendBodies : SendStart("s1", body)
    \/ \E c \in BagToSet(calls) : DbCreate(c)
    \/ \E c \in BagToSet(calls) : Settle(c)
    \/ SendResume
    \/ \E a \in ListAuthorizations, q \in ListQueries : List(a, q)

SpecList == Init /\ [][NextList]_vars

\* The sends of two sockets with accepted handshakes, which stay connected, to
\* both channels, from inside and from outside the room of the channel
NextPost ==
    \/ \E s \in Sessions, hs \in ValidHandshakes : Connect(s, hs)
    \/ \E s \in Sessions, body \in CoreJoinBodies : Join(s, body)
    \/ \E s \in Sessions, body \in CoreSendBodies : SendStart(s, body)
    \/ \E c \in BagToSet(calls) : DbCreate(c)
    \/ \E c \in BagToSet(calls) : Settle(c)
    \/ SendResume

SpecPost == Init /\ [][NextPost]_vars

\* The handshakes of two sockets, with every pair of a handshake field (absent,
\* empty or a token) and an Authorization header, while the clock advances
HandshakeInputs ==
    [ authToken : {<<>>, <<EmptyString>>} \cup { <<t>> : t \in Tokens },
      authorization : {<<>>} \cup { <<h>> : h \in Headers } ]

NextHandshake ==
    \/ Tick
    \/ \E s \in Sessions, hs \in HandshakeInputs : Connect(s, hs)
    \/ \E s \in Sessions : Disconnect(s)

SpecHandshake == Init /\ [][NextHandshake]_vars

\* The live-connection path of one socket with a handshake of a USER, of an
\* ADMIN or with a forged token, and with every body of channel.join and
\* message.send
NextBodies == GatewayStep({"s1"}, CoreHandshakes, JoinBodies, SendBodies)

SpecBodies == Init /\ [][NextBodies]_vars

\* The live-connection path of one socket of a USER, which joins general and
\* sends to it, beside the listing, flush and delete requests of an
\* administrator on general
FrameQueries ==
    [ channel : {"general"}, take : { <<>>, <<1>> }, cursor : { <<>> } ]

NextFrame ==
    \/ GatewayStep({"s1"}, {[authToken |-> <<UserToken>>, authorization |-> <<>>]},
                   {<<[channel |-> "general"]>>},
                   {<<[channel |-> "general", content |-> << <<" ", "h", "i", " ">> >>]>>})
    \/ HttpStep({bearer(AdminToken)}, {"general"})
    \/ \E q \in FrameQueries : List(bearer(AdminToken), q)

SpecFrame == Init /\ [][NextFrame]_vars

\* One subject under both roles: socket s1 connects with her token of role
\* USER, socket s2 with her token of role ADMIN; s1 joins general, both send
\* on both channels, and the listing and flush requests come under both tokens
UserAlice == [key |-> GoodKey, sub |-> "alice", role |-> "USER", exp |-> <<>>]
AdminAlice == [key |-> GoodKey, sub |-> "alice", role |-> "ADMIN", exp |-> <<>>]

PrivilegeQueries ==
    [ channel : ChannelKey, take : { <<>> }, cursor : { <<>> } ]

NextPrivilege ==
    \/ Connect("s1", [authToken |-> <<UserAlice>>, authorization |-> <<>>])
    \/ Connect("s2", [authToken |-> <<AdminAlice>>, authorization |-> <<>>])
    \/ Join("s1", <<[channel |-> "general"]>>)
    \/ \E s \in Sessions, body \in CoreSendBodies : SendStart(s, body)
    \/ \E c \in BagToSet(calls) : DbCreate(c)
    \/ \E c \in BagToSet(calls) : Settle(c)
    \/ SendResume
    \/ \E a \in {bearer(UserAlice), bearer(AdminAlice)} : Flush(a, "general")
    \/ \E a \in {bearer(UserAlice), bearer(AdminAlice)}, q \in PrivilegeQueries : List(a, q)

SpecPrivilege == Init /\ [][NextPrivilege]_vars

\* The table outlives the server: a start over a table that holds a row of
\* general from an earlier run, with the id the store gave it then
StoredRow ==
    [id |-> 0, channelKey |-> "general", authorId |-> "alice", authorRole |-> "USER",
     content |-> <<"h", "i">>, createdAt |-> 0]

InitStored ==
    /\ secret = <<GoodKey>>
    /\ now = 0
    /\ conn = [s \in Sessions |-> "new"]
    /\ user = [s \in Sessions |-> <<>>]
    /\ rooms = [s \in Sessions |-> {}]
    /\ inbox = [s \in Sessions |-> <<>>]
    /\ store = { StoredRow }
    /\ nextId = 1
    /\ calls = EmptyBag
    /\ microtasks = <<>>
    /\ completed = <<>>
    /\ lastAck = <<>>
    /\ removed = {}
    /\ deletes = [i \in {} |-> 0]
    /\ httpResp = <<>>

\* The listings of a USER, with the cursors a client may send, while an
\* administrator posts to both channels and a USER socket sits in general
StoredQueries == [channel : ChannelKey, take : {<<>>, <<1>>}, cursor : {<<>>, <<0>>, <<1>>, <<2>>}]

NextStored ==
    \/ Tick
    \/ Connect("s1", [authToken |-> <<>>, authorization |-> bearer(AdminToken)])
    \/ Connect("s2", [authToken |-> <<>>, authorization |-> bearer(UserToken)])
    \/ Join("s2", <<[channel |-> "general"]>>)
    \/ \E body \in CoreSendBodies : SendStart("s1", body)
    \/ \E c \in BagToSet(calls) : DbCreate(c)
    \/ \E c \in BagToSet(calls) : Settle(c)
    \/ SendResume
    \/ \E q \in StoredQueries : List(bearer(UserToken), q)

SpecStored == InitStored /\ [][NextStored]_vars

----------------------------------------------------------------------------
(* Vocabulary of the properties *)

\* the message.new events socket s received, in order
newMessages(s) == SelectSeq(inbox[s], LAMBDA e : e.type = "message.new")

\* the rows of channel c that socket s received in message.new events, in order
observed(s, c) ==
    LET evs == SelectSeq(newMessages(s), LAMBDA e : e.msg.channelKey = c)
    IN  [i \in 1..Len(evs) |-> evs[i].msg]

\* the rows of channel c the create calls returned, in return order
completedIn(c) == SelectSeq(completed, LAMBDA r : r.channelKey = c)

\* the elements of a sequence
Range(seq) == { seq[i] : i \in 1..Len(seq) }

\* the position of an element in a sequence that holds it
position(seq, x) == CHOOSE i \in 1..Len(seq) : seq[i] = x

\* the message.new event of a row
newMessage(row) == [type |-> "message.new", msg |-> row]

\* this step the continuation at position i of the queue ran
resumed(i) ==
    /\ i \in 1..Len(microtasks)
    /\ Len(microtasks') < Len(microtasks)
    /\ microtasks' = removeAt(microtasks, i)

unauthorizedAck == [ok |-> FALSE, error |-> "UNAUTHORIZED"]

----------------------------------------------------------------------------
(* C1: every message.new event any socket received carries a row that a create
   call of the message store had returned before the event was emitted *)
C1_BroadcastOnlyAfterPersist ==
    \A s \in Sessions : \A i \in 1..Len(newMessages(s)) :
        newMessages(s)[i].msg \in Range(completed)

\* a socket has received a message.new event
C1_Witness ==
    \E s \in Sessions : newMessages(s) # <<>>

(* C2: when the create call of a send failed, the step that resumes the handler
   emits no event to any socket, leaves the store as it is and acks ok:false to
   the sender; and every row that enters the store is the row a create call
   returned *)
C2_FailedCreateStaysPrivate ==
    [][ /\ \A i \in 1..Len(microtasks) :
              (resumed(i) /\ microtasks[i].saved = <<>>)
              => /\ inbox' = inbox
                 /\ store' = store
                 /\ lastAck' # <<>>
                 /\ lastAck'[1].sock = microtasks[i].sock
                 /\ lastAck'[1].value.ok = FALSE
        /\ \A r \in store' \ store :
              \E c \in BagToSet(calls') : c.saved = <<r>>
      ]_vars

\* a send was just acked with the failure of the store while another socket is
\* in the rooms of both channels
C2_Witness ==
    /\ lastAck # <<>>
    /\ lastAck[1].value = [ok |-> FALSE, error |-> "PersistenceError"]
    /\ \E t \in Sessions : t # lastAck[1].sock /\ rooms[t] = ChannelKey

(* C3: in each channel, the rows a socket observed are rows the create calls
   returned, in the order in which those calls returned; so any two sockets
   observe the rows they both received in the same order *)
C3_BroadcastOrderIsCompletionOrder ==
    \A s \in Sessions, c \in ChannelKey :
        /\ \A i \in 1..Len(observed(s, c)) : observed(s, c)[i] \in Range(completedIn(c))
        /\ \A i, j \in 1..Len(observed(s, c)) :
              i < j => position(completedIn(c), observed(s, c)[i])
                         < position(completedIn(c), observed(s, c)[j])

\* two sockets observed two rows of one channel, the row stored second first
C3_Witness ==
    \E s, t \in Sessions, c \in ChannelKey :
        /\ s # t
        /\ Len(observed(s, c)) = 2
        /\ observed(t, c) = observed(s, c)
        /\ observed(s, c)[1].id > observed(s, c)[2].id

(* C4: a message whose create call succeeded is acked {ok: true, messageId} to
   its sender and broadcast to every socket in the room of its channel, whether
   or not the sender is still connected: the step that resumes the handler does
   both, and that step is eventually taken *)
C4_Created(id) ==
    \/ \E c \in BagToSet(calls) : c.saved # <<>> /\ c.saved[1].id = id
    \/ \E i \in 1..Len(microtasks) : microtasks[i].saved # <<>> /\ microtasks[i].saved[1].id = id

C4_AckedAndBroadcast(id) ==
    \E r \in Range(completed) :
        /\ r.id = id
        /\ lastAck # <<>>
        /\ lastAck[1].value = [ok |-> TRUE, messageId |-> id]
        /\ \A t \in Sessions :
              r.channelKey \in rooms[t]
              => inbox[t] # <<>> /\ inbox[t][Len(inbox[t])] = newMessage(r)

C4_PersistedIsBroadcastAndAcked ==
    /\ [][ \A i \in 1..Len(microtasks) :
              (resumed(i) /\ microtasks[i].saved # <<>>)
              => /\ lastAck' = ack(microtasks[i].sock,
                                   [ok |-> TRUE, messageId |-> microtasks[i].saved[1].id])
                 /\ inbox' = [t \in Sessions |->
                                IF microtasks[i].data.channelKey \in rooms[t]
                                THEN Append(inbox[t], newMessage(microtasks[i].saved[1]))
                                ELSE inbox[t]]
         ]_vars
    /\ \A id \in 1..MaxSends : C4_Created(id) ~> C4_AckedAndBroadcast(id)

\* a send was acked ok after its sender had disconnected, and the other socket,
\* in the room, received the message
C4_Witness ==
    \E s, t \in Sessions :
        /\ s # t
        /\ conn[s] = "closed"
        /\ lastAck # <<>> /\ lastAck[1].sock = s /\ lastAck[1].value.ok
        /\ inbox[t] # <<>>
        /\ inbox[t][Len(inbox[t])].type = "message.new"
        /\ inbox[t][Len(inbox[t])].msg.id = lastAck[1].value.messageId

(* C5: no socket of a USER is in the room support and no stored message of
   support has authorRole USER; a join of general by any authenticated socket
   and a join of support by an ADMIN socket are acked ok and enter the room; and
   the refusal of the access check is never the answer to an ADMIN, nor to a
   join of general or a send to general *)
C5_Allowed(s, c) ==
    /\ conn[s] = "open"
    /\ user[s] # <<>>
    /\ c = "general" \/ user[s][1].role = "ADMIN"

C5_Body(c) == <<[channel |-> c, content |-> << <<" ", "h", "i", " ">> >>]>>

C5_NoAccess == [ok |-> FALSE, error |-> "No access to support channel"]

C5_SupportIsAdminOnly ==
    /\ [](/\ \A s \in Sessions :
               (user[s] # <<>> /\ user[s][1].role = "USER") => "support" \notin rooms[s]
          /\ \A m \in store : m.channelKey = "support" => m.authorRole # "USER")
    /\ [][ \A s \in Sessions :
              /\ \A c \in ChannelKey :
                    (C5_Allowed(s, c) /\ Join(s, <<[channel |-> c]>>))
                    => /\ lastAck' = ack(s, [ok |-> TRUE, joined |-> c])
                       /\ c \in rooms'[s]
              /\ lastAck' = ack(s, C5_NoAccess)
                 => /\ user[s] # <<>> /\ user[s][1].role # "ADMIN"
                    /\ ~Join(s, <<[channel |-> "general"]>>)
                    /\ ~SendStart(s, C5_Body("general"))
         ]_vars

\* an ADMIN socket is in the room support, a USER socket is in the room general,
\* and messages of the ADMIN in support and of the USER in general are stored
C5_Witness ==
    /\ \E s, t \in Sessions :
          /\ user[s] # <<>> /\ user[s][1].role = "ADMIN" /\ "support" \in rooms[s]
          /\ user[t] # <<>> /\ user[t][1].role = "USER" /\ "general" \in rooms[t]
    /\ \E m \in store : m.channelKey = "support" /\ m.authorRole = "ADMIN"
    /\ \E m \in store : m.channelKey = "general" /\ m.authorRole = "USER"

(* C6: a socket whose handshake was rejected is in no room; each channel.join
   and message.send on it, whatever the body, is acked {ok: false, error:
   "UNAUTHORIZED"} and changes no room, no pending create call and no stored row *)
C6_Rejected(s) == conn[s] = "open" /\ user[s] = <<>>

C6_Refused(s) ==
    /\ lastAck' = ack(s, unauthorizedAck)
    /\ rooms' = rooms
    /\ calls' = calls
    /\ store' = store

C6_RejectedSessionIsRefused ==
    /\ [](\A s \in Sessions : user[s] = <<>> => rooms[s] = {})
    /\ [][ \A s \in Sessions :
              C6_Rejected(s)
              => /\ user'[s] = <<>>
                 /\ \A b \in JoinBodies : Join(s, b) => C6_Refused(s)
                 /\ \A b \in SendBodies : SendStart(s, b) => C6_Refused(s)
         ]_vars

\* a join or send on a rejected socket was just refused
C6_Witness ==
    \E s \in Sessions :
        /\ C6_Rejected(s)
        /\ lastAck = ack(s, unauthorizedAck)
        /\ Len(inbox[s]) = 2

(* C7: client.data.user changes only in the step that opens the connection; on
   an authenticated socket no later join or send is acked UNAUTHORIZED, and a
   join is decided by the role fixed at the handshake, also after the token has
   expired *)
C7_PrincipalFixedAtHandshake ==
    [][ \A s \in Sessions :
           /\ user'[s] # user[s] => (conn[s] = "new" /\ conn'[s] = "open")
           /\ (conn[s] = "open" /\ user[s] # <<>>)
              => /\ \A b \in JoinBodies \ {<<>>} :
                       Join(s, b)
                       => lastAck' = ack(s,
                             IF b[1].channel = "support" /\ user[s][1].role # "ADMIN"
                             THEN [ok |-> FALSE, error |-> "No access to support channel"]
                             ELSE [ok |-> TRUE, joined |-> b[1].channel])
                 /\ lastAck' = ack(s, unauthorizedAck)
                    => \A b \in SendBodies : ~SendStart(s, b)
      ]_vars

\* the socket of the ADMIN whose token expired at 1 has just joined support, at 1
\* or later
C7_Witness ==
    /\ now >= 1
    /\ user["s1"] = <<[id |-> "bob", role |-> "ADMIN"]>>
    /\ lastAck = ack("s1", [ok |-> TRUE, joined |-> "support"])

(* C8: a message.new is appended to the inbox of a socket only while the socket
   is connected and in the room of the message's channel; the inbox of a socket
   that is in no room holds no message.new *)
C8_Delivered(s) ==
    /\ Len(inbox'[s]) = Len(inbox[s]) + 1
    /\ inbox'[s][Len(inbox'[s])].type = "message.new"

C8_OnlyMembersReceive ==
    /\ [][ \A s \in Sessions :
              C8_Delivered(s)
              => /\ conn[s] = "open"
                 /\ inbox'[s][Len(inbox'[s])].msg.channelKey \in rooms[s]
         ]_vars
    /\ [](\A s \in Sessions :
             conn[s] = "open"
             => \A i \in 1..Len(newMessages(s)) :
                   newMessages(s)[i].msg.channelKey \in rooms[s])

\* the ADMIN socket, in support, received a message of support; the USER socket,
\* in general only, is connected and received no message
C8_Witness ==
    \E s, t \in Sessions :
        /\ s # t
        /\ \E i \in 1..Len(newMessages(s)) : newMessages(s)[i].msg.channelKey = "support"
        /\ conn[t] = "open"
        /\ rooms[t] = {"general"}
        /\ newMessages(t) = <<>>

(* C9: the step that broadcasts a message appends exactly one message.new of it
   to the inbox of each socket in the room, the sender's included, and no inbox
   ever holds two message.new of one message; a join of a room the socket is
   already in is acked ok and leaves the rooms as they are *)
C9_Copies(box, row) ==
    Cardinality({i \in 1..Len(box) : box[i] = newMessage(row)})

C9_ExactlyOncePerMember ==
    /\ [][ /\ \A i \in 1..Len(microtasks) :
                 (resumed(i) /\ microtasks[i].saved # <<>>)
                 => \A t \in Sessions :
                       microtasks[i].data.channelKey \in rooms[t]
                       => /\ C9_Copies(inbox[t], microtasks[i].saved[1]) = 0
                          /\ C9_Copies(inbox'[t], microtasks[i].saved[1]) = 1
           /\ \A s \in Sessions, c \in ChannelKey :
                 (c \in rooms[s] /\ Join(s, <<[channel |-> c]>>))
                 => /\ rooms' = rooms
                    /\ lastAck' = ack(s, [ok |-> TRUE, joined |-> c])
         ]_vars
    /\ [](\A s \in Sessions : \A r \in Range(completed) : C9_Copies(inbox[s], r) <= 1)

\* a socket has just joined again the room in which it had received its own
\* message, which a socket of another user received as well
C9_Witness ==
    \E s, t \in Sessions : \E r \in Range(completed) :
        /\ s # t
        /\ user[s] # <<>> /\ user[t] # <<>>
        /\ user[s][1].id = r.authorId /\ user[t][1].id # r.authorId
        /\ C9_Copies(inbox[s], r) = 1
        /\ C9_Copies(inbox[t], r) = 1
        /\ lastAck = ack(s, [ok |-> TRUE, joined |-> r.channelKey])

(* C10: when a send is acked {ok: true, messageId}, the row the create call
   returned has that id, the trimmed content of the body, the channel of the
   body and the id and role of the socket's user, it is in the store unless a
   delete or flush removed it, and the message.new events of the step carry
   that row; a stored row stays as it is until a delete or flush removes it,
   and every first page of its channel contains it *)
C10_AckedOk(i) ==
    /\ resumed(i)
    /\ lastAck' # <<>>
    /\ lastAck'[1].value.ok

C10_AckedSendIsStored ==
    /\ [][ /\ \A i \in 1..Len(microtasks) :
                 C10_AckedOk(i)
                 => /\ microtasks[i].saved # <<>>
                    /\ lastAck'[1].sock = microtasks[i].sock
                    /\ lastAck'[1].value.messageId = microtasks[i].saved[1].id
                    /\ microtasks[i].saved[1].content = trim(microtasks[i].body.content[1])
                    /\ microtasks[i].saved[1].channelKey = microtasks[i].body.channel
                    /\ microtasks[i].saved[1].authorId = user[microtasks[i].sock][1].id
                    /\ microtasks[i].saved[1].authorRole = user[microtasks[i].sock][1].role
                    /\ \/ microtasks[i].saved[1] \in store
                       \/ microtasks[i].saved[1].id \in removed
                    /\ \A t \in Sessions :
                          inbox'[t] # inbox[t]
                          => inbox'[t] = Append(inbox[t], newMessage(microtasks[i].saved[1]))
           /\ \A m \in store : m \in store' \/ m.id \in removed'
         ]_vars
    /\ [](/\ \A m \in store :
               \A page \in listMessages(m.channelKey, DefaultTake, <<>>) : m \in Range(page)
          /\ \A m, n \in store : m.id = n.id => m = n)

\* a send of " hi " was acked ok, its row is stored with content "hi" and the
\* sender's socket received it, after an earlier message had been removed
C10_Witness ==
    /\ lastAck # <<>>
    /\ lastAck[1].value.ok
    /\ removed # {}
    /\ \E m \in store :
          /\ lastAck[1].value = [ok |-> TRUE, messageId |-> m.id]
          /\ m.content = <<"h", "i">>
          /\ inbox[lastAck[1].sock] # <<>>
          /\ inbox[lastAck[1].sock][Len(inbox[lastAck[1].sock])] = newMessage(m)

(* C11: a send whose trimmed content is empty or longer than 500 is acked
   "Invalid content" and issues no create call; a send whose trimmed content has
   1 to 500 characters issues the create call with the trimmed content, whatever
   the length of the untrimmed input; every stored content is trimmed and has 1
   to 500 characters *)
C11_Trimmed(b) == IF b[1].content = <<>> THEN <<>> ELSE trim(b[1].content[1])

C11_ContentCheckUsesTrimmed ==
    /\ [][ \A s \in Sessions : \A b \in BoundaryBodies :
              (user[s] # <<>> /\ SendStart(s, b))
              => IF C11_Trimmed(b) = <<>> \/ Len(C11_Trimmed(b)) > MaxContentLength
                 THEN /\ lastAck' = ack(s, [ok |-> FALSE, error |-> "Invalid content"])
                      /\ calls' = calls
                 ELSE /\ lastAck' = <<>>
                      /\ \E c \in BagToSet(calls') :
                            /\ c.sock = s
                            /\ c.body = b[1]
                            /\ c.data.content = C11_Trimmed(b)
                            /\ CopiesIn(c, calls') = CopiesIn(c, calls) + 1
         ]_vars
    /\ [](\A m \in store :
             /\ Len(m.content) \in 1..MaxContentLength
             /\ m.content = trim(m.content))

\* input of 502 characters that trims to 500 was sent and its row was created
\* with the 500 characters
C11_Witness ==
    \E c \in BagToSet(calls) :
        /\ Len(c.body.content[1]) = MaxContentLength + 2
        /\ c.saved # <<>>
        /\ c.saved[1] \in store
        /\ c.saved[1].content = xs(MaxContentLength)

(* C12: when a socket connects with a token that is signed with the secret, has
   not expired and has a subject, its user is that subject with role ADMIN if
   the role claim is exactly ADMIN and role USER for any other or no role claim,
   and auth.ok is emitted; no user has another role, and only the subject whose
   token claims ADMIN is ever ADMIN *)
C12_Token(hs) ==
    IF hs.authToken # <<>> THEN hs.authToken[1] ELSE hs.authorization[1].rest[1]

C12_Verifies(hs) ==
    /\ secret # <<>>
    /\ hs.authToken # <<>> \/ hs.authorization # <<>>
    /\ C12_Token(hs).key = secret[1]
    /\ C12_Token(hs).exp = <<>> \/ now < C12_Token(hs).exp[1]
    /\ C12_Token(hs).sub # ""

C12_RoleDefaultsToUser ==
    /\ [][ \A s \in Sessions :
              conn[s] = "new" /\ conn'[s] = "open"
              => \A hs \in AuthHandshakes :
                    (C12_Verifies(hs) /\ Connect(s, hs))
                    => /\ user'[s] =
                            <<[id   |-> C12_Token(hs).sub,
                               role |-> IF C12_Token(hs).role = "ADMIN"
                                        THEN "ADMIN" ELSE "USER"]>>
                       /\ inbox'[s][Len(inbox'[s])].type = "auth.ok"
         ]_vars
    /\ [](\A s \in Sessions :
             user[s] # <<>>
             => /\ user[s][1].role \in Role
                /\ user[s][1].role = "ADMIN" => user[s][1].id = "bob")

\* the subjects whose tokens claim MODERATOR, "admin" or no role can be users,
\* and then with role USER: here the first has joined general
C12_Witness ==
    /\ user["s1"] = <<[id |-> "carol", role |-> "USER"]>>
    /\ inbox["s1"] = <<[type |-> "auth.ok", id |-> "carol", role |-> "USER"]>>
    /\ "general" \in rooms["s1"]

(* C13: for every token, the request path yields a user exactly when a socket
   connecting with the token in its Authorization header gets one, and then the
   same id and role: the socket's user is getUserFromReq of the header, and a
   flush is answered UNAUTHORIZED exactly when the socket would get no user *)
C13_VerifiersAgree ==
    [][ \A t \in AuthTokens :
           /\ \A s \in Sessions :
                 Connect(s, [authToken |-> <<>>, authorization |-> bearer(t)])
                 => user'[s] = getUserFromReq(bearer(t))
           /\ \A c \in ChannelKey :
                 Flush(bearer(t), c)
                 => (httpResp'[1].body = [ok |-> FALSE, error |-> "UNAUTHORIZED"]
                     <=> handleConnectionResult(
                            [authToken |-> <<>>, authorization |-> bearer(t)]).user = <<>>)
      ]_vars

(* C14: every room a socket is in and the channelKey of every stored row is
   general or support, and a join or send that names another channel is acked
   ok: false and changes no room, no pending call and no row *)
C14_OtherChannel(b) == b # <<>> /\ b[1].channel \notin ChannelKey

C14_ChannelsAreClosed ==
    /\ [](/\ \A s \in Sessions : rooms[s] \subseteq ChannelKey
          /\ \A m \in store : m.channelKey \in ChannelKey)
    /\ [][ \A s \in Sessions :
              (user[s] # <<>> /\ lastAck' # <<>>)
              => /\ \A b \in JoinBodies :
                       (C14_OtherChannel(b) /\ Join(s, b))
                       => ~lastAck'[1].value.ok /\ rooms' = rooms
                 /\ \A b \in SendBodies :
                       (C14_OtherChannel(b) /\ SendStart(s, b))
                       => ~lastAck'[1].value.ok /\ calls' = calls /\ store' = store
         ]_vars

(* C15: a join that is acked ok: false leaves the rooms of every socket and the
   table as they are; a join that is acked {ok: true, joined: c} adds c to the
   rooms of its socket and changes nothing else: no other socket's rooms, no
   inbox, no user, no pending call, no row *)
C15_JoinFrame ==
    [][ \A s \in Sessions :
           (lastAck' # <<>> /\ lastAck'[1].sock = s)
           => \A b \in CoreJoinBodies :
                 Join(s, b)
                 => IF lastAck'[1].value.ok
                    THEN /\ lastAck'[1].value = [ok |-> TRUE, joined |-> b[1].channel]
                         /\ rooms' = [rooms EXCEPT ![s] = rooms[s] \cup {b[1].channel}]
                         /\ UNCHANGED <<conn, user, inbox, calls, microtasks, completed,
                                        store, nextId, removed>>
                    ELSE /\ user[s] = <<>>
                            \/ (b[1].channel = "support" /\ user[s][1].role # "ADMIN")
                         /\ UNCHANGED <<rooms, conn, user, store, calls>>
      ]_vars

\* the ADMIN socket, in general, has just joined support, while the other socket
\* is in general only and a row is stored
C15_Witness ==
    \E s, t \in Sessions :
        /\ s # t
        /\ rooms[s] = ChannelKey
        /\ rooms[t] = {"general"}
        /\ lastAck = ack(s, [ok |-> TRUE, joined |-> "support"])
        /\ store # {}

(* C16 as stated: a join without a body on an authenticated socket is acked
   exactly {ok: false, error: "JOIN_FAILED"} *)
C16_JoinFailedCode ==
    [][ \A s \in Sessions :
           (user[s] # <<>> /\ Join(s, <<>>))
           => lastAck' = ack(s, [ok |-> FALSE, error |-> "JOIN_FAILED"])
      ]_vars

(* C16 amended: a join without a body on an authenticated socket is acked
   {ok: false, error: m} with m the message of the failure, the connection stays
   open with its user and rooms, and nothing else changes *)
C16_JoinFailureIsAcked ==
    [][ \A s \in Sessions :
           (user[s] # <<>> /\ Join(s, <<>>))
           => /\ lastAck' = ack(s, [ok |-> FALSE, error |-> MissingBodyMessage])
              /\ conn'[s] = "open"
              /\ UNCHANGED <<conn, user, rooms, inbox, store, calls, microtasks>>
      ]_vars

\* a join without a body was refused on a socket that is in a room and stays in it
C16_Witness ==
    \E s \in Sessions :
        /\ user[s] # <<>>
        /\ conn[s] = "open"
        /\ rooms[s] # {}
        /\ lastAck = ack(s, [ok |-> FALSE, error |-> MissingBodyMessage])

(* C17: a socket never has two sends between their dispatch and their ack, and
   each socket receives the messages of one author in a channel in the order
   they were stored *)
C17_InFlight(s) ==
    LET inCalls == { c \in BagToSet(calls) : c.sock = s }
    IN  (IF inCalls = {} THEN 0
         ELSE LET one == CHOOSE c \in inCalls : TRUE
              IN  CopiesIn(one, calls) + Cardinality(inCalls \ {one}))
        + Cardinality({ i \in 1..Len(microtasks) : microtasks[i].sock = s })

C17_SendsOfASocketAreSerial ==
    /\ \A s \in Sessions : C17_InFlight(s) <= 1
    /\ \A s \in Sessions, c \in ChannelKey :
          \A i, j \in 1..Len(observed(s, c)) :
             (i < j /\ observed(s, c)[i].authorId = observed(s, c)[j].authorId)
             => observed(s, c)[i].id < observed(s, c)[j].id

(* C18: when the continuation of a send runs after its socket has closed and the
   create call succeeded, the row is in the table, every socket in the room
   receives its message.new and the closed socket receives nothing; closing a
   socket leaves its pending create calls as they are, and a closed socket
   never receives an event *)
C18_DepartedSenderStillBroadcasts ==
    [][ /\ \A i \in 1..Len(microtasks) :
              (resumed(i) /\ microtasks[i].saved # <<>>
                          /\ conn[microtasks[i].sock] = "closed")
              => /\ microtasks[i].saved[1] \in store
                 /\ inbox'[microtasks[i].sock] = inbox[microtasks[i].sock]
                 /\ \A t \in Sessions :
                       microtasks[i].data.channelKey \in rooms[t]
                       => inbox'[t] = Append(inbox[t], newMessage(microtasks[i].saved[1]))
        /\ \A s \in Sessions :
              /\ (conn[s] = "open" /\ conn'[s] = "closed")
                 => UNCHANGED <<calls, microtasks, store>>
              /\ conn[s] = "closed" => inbox'[s] = inbox[s]
      ]_vars

\* a socket that received the first message of the channel closed while its own
\* send was pending: the row is stored and the other socket received it, the
\* closed one did not
C18_Witness ==
    \E s, t \in Sessions : \E r1, r2 \in store :
        /\ s # t
        /\ conn[s] = "closed"
        /\ r1.channelKey = r2.channelKey
        /\ user[s] # <<>>
        /\ r2.authorId = user[s][1].id
        /\ user[t] # <<>> /\ user[t][1].id # r2.authorId
        /\ newMessage(r1) \in Range(inbox[s])
        /\ newMessage(r2) \notin Range(inbox[s])
        /\ newMessage(r2) \in Range(inbox[t])

(* C19: the step that closes a socket empties the rooms of that socket, leaves
   the rooms of the others, the table, the users, the inboxes and the pending
   calls as they are and answers nothing; a closed socket is in no room, so
   closing it again would change nothing, and it receives no further event *)
C19_DisconnectFrame ==
    /\ [][ \A s \in Sessions :
              /\ (conn[s] = "open" /\ conn'[s] = "closed")
                 => /\ rooms' = [rooms EXCEPT ![s] = {}]
                    /\ lastAck' = <<>>
                    /\ UNCHANGED <<user, inbox, store, nextId, removed, calls,
                                   microtasks, completed>>
              /\ conn[s] = "closed"
                 => /\ conn'[s] = "closed"
                    /\ rooms'[s] = {}
                    /\ inbox'[s] = inbox[s]
         ]_vars
    /\ [](\A s \in Sessions : conn[s] = "closed" => rooms[s] = {})

\* a socket that was in a room closed; a message was then broadcast to the room,
\* which the other socket received and the closed one did not
C19_Witness ==
    \E s, t \in Sessions : \E r \in store :
        /\ s # t
        /\ conn[s] = "closed"
        /\ user[s] # <<>>
        /\ inbox[s] # <<>>
        /\ inbox[s][Len(inbox[s])].type = "message.new"
        /\ r.channelKey = inbox[s][Len(inbox[s])].msg.channelKey
        /\ r.authorId # user[s][1].id
        /\ newMessage(r) \notin Range(inbox[s])
        /\ newMessage(r) \in Range(inbox[t])

(* C20: while a socket stays connected its rooms only grow, whatever step is
   taken, moderation requests included; they grow only in a step that acks
   {ok: true, joined: c} to that socket, by c, with the socket authenticated and
   c not support unless its role is ADMIN *)
C20_RoomsOnlyGrow ==
    [][ \A s \in Sessions :
           (conn[s] = "open" /\ conn'[s] = "open")
           => /\ rooms[s] \subseteq rooms'[s]
              /\ rooms'[s] # rooms[s]
                 => /\ user[s] # <<>>
                    /\ lastAck' # <<>>
                    /\ lastAck'[1].sock = s
                    /\ lastAck'[1].value.ok
                    /\ rooms'[s] = rooms[s] \cup {lastAck'[1].value.joined}
                    /\ lastAck'[1].value.joined = "support" => user[s][1].role = "ADMIN"
      ]_vars

\* the ADMIN socket is in both rooms after the other socket closed and a flush
\* removed a message it had received
C20_Witness ==
    \E s, t \in Sessions :
        /\ s # t
        /\ rooms[s] = ChannelKey
        /\ conn[t] = "closed"
        /\ removed # {}
        /\ newMessages(s) # <<>>
        /\ httpResp # <<>>

(* C21: a flush or delete request whose credential does not verify, or verifies
   with a role other than ADMIN, removes no message: the step leaves the store
   as it is, starts no delete and is answered UNAUTHORIZED or 403 Forbidden;
   and every step that takes a row out of the store completes a flush or a
   delete that a verified ADMIN credential requested *)
C21_Admin(authorization) ==
    /\ secret # <<>>
    /\ authorization # <<>>
    /\ authorization[1].prefix = "Bearer "
    /\ authorization[1].rest # <<>>
    /\ authorization[1].rest[1].key = secret[1]
    /\ \A i \in 1..Len(authorization[1].rest[1].exp) :
           now < authorization[1].rest[1].exp[i]
    /\ authorization[1].rest[1].sub # ""
    /\ authorization[1].rest[1].role = "ADMIN"

C21_Refused ==
    /\ httpResp' # <<>>
    /\ \/ httpResp'[1] = [status |-> 200, body |-> [ok |-> FALSE, error |-> "UNAUTHORIZED"]]
       \/ httpResp'[1].status = 403
    /\ UNCHANGED <<store, removed, deletes>>

C21_OnlyAdminRemoves ==
    [][ /\ \/ C21_Refused
           \/ \A a \in HttpAuthorizations : ~C21_Admin(a) =>
                 /\ ~Flush(a, "general")
                 /\ \A id \in 1..nextId : ~DeleteFind(a, id)
        /\ store' # store /\ store' \subseteq store =>
              \/ \E a \in HttpAuthorizations : C21_Admin(a) /\ Flush(a, "general")
              \/ \E id \in DOMAIN deletes : DeleteExec(id) ]_vars

\* rows are stored and a flush or delete whose credential verified with a role
\* other than ADMIN was answered 403
C21_Witness ==
    /\ store # {}
    /\ httpResp # <<>>
    /\ httpResp[1].status = 403

(* C22: a flush of channel c by an administrator answers with the number of
   rows of c that were stored when it ran, leaves the rows of the other channel
   as they are, and leaves no row of c, so that a listing of c right after it
   is empty; and a channel without rows stays without rows, and its listing
   empty, in every step in which no create call inserts a row *)
C22_FlushIsExact ==
    [][ \A c \in ChannelKey :
          /\ (C21_Admin(bearer(AdminToken)) /\ Flush(bearer(AdminToken), c)) =>
                /\ httpResp' = <<[status |-> 200,
                                  body |-> [deleted |-> Cardinality({ m \in store : m.channelKey = c }),
                                            channelKey |-> c]]>>
                /\ { m \in store' : m.channelKey # c } = { m \in store : m.channelKey # c }
                /\ { m \in store' : m.channelKey = c } = {}
                /\ listMessages(c, DefaultTake, <<>>)' = { <<>> }
          /\ ({ m \in store : m.channelKey = c } = {}
                /\ listMessages(c, DefaultTake, <<>>)' # { <<>> }) =>
                \E call \in BagToSet(calls) : DbCreate(call) ]_vars

\* a flush of general reported one deleted row, and the row of support is
\* still stored
C22_Witness ==
    /\ httpResp # <<>>
    /\ httpResp[1].status = 200
    /\ httpResp[1].body = [deleted |-> 1, channelKey |-> "general"]
    /\ \E m \in store : m.channelKey = "support"

(* C23: every delete request of an administrator ends with 200 {deleted: TRUE,
   id, channelKey} or with 404 Not Found, also when the row is removed between
   its findUnique and its delete; a row is reported deleted at most once, and
   a step that answers Not Found leaves the store as it is *)
C23_DeleteEndsTyped ==
    [][ /\ \A id \in DOMAIN deletes : DeleteExec(id) =>
              /\ httpResp' # <<>>
              /\ \/ /\ httpResp'[1].status = 200
                    /\ httpResp'[1].body.deleted = TRUE
                    /\ httpResp'[1].body.id = id
                    /\ id \notin removed
                 \/ /\ httpResp'[1].status = 404
                    /\ store' = store
        /\ \A id \in 1..nextId :
              (C21_Admin(bearer(AdminToken)) /\ DeleteFind(bearer(AdminToken), id)) =>
                 \/ httpResp' = <<>>
                 \/ httpResp'[1].status = 404 /\ store' = store ]_vars

(* C24: a listing request is answered with messages only when its credential
   verifies and the role of the principal may access the requested channel (a
   USER never obtains rows of support); the rows of the answer are stored rows
   of the requested channel, at most take of them (50 when the query names no
   take, and a take outside 1..100 obtains no rows), with createdAt not
   increasing; and a well-formed query under a credential that does not verify
   is answered UNAUTHORIZED *)
C24_Verifies(authorization) ==
    /\ secret # <<>>
    /\ authorization # <<>>
    /\ authorization[1].prefix = "Bearer "
    /\ authorization[1].rest # <<>>
    /\ authorization[1].rest[1].key = secret[1]
    /\ \A i \in 1..Len(authorization[1].rest[1].exp) :
           now < authorization[1].rest[1].exp[i]
    /\ authorization[1].rest[1].sub # ""
    /\ authorization[1].rest[1].role \in Role

C24_Listed == httpResp' # <<>> /\ "messages" \in DOMAIN httpResp'[1].body

C24_WellFormed ==
    { q \in ListQueries : /\ q.channel \in ChannelKey
                          /\ q.take = <<>> \/ (q.take[1] >= 1 /\ q.take[1] <= 100) }

C24_Page(a, q, page) ==
    /\ C24_Verifies(a)
    /\ q.channel = "support" => a[1].rest[1].role = "ADMIN"
    /\ \A i \in 1..Len(page) : page[i] \in store /\ page[i].channelKey = q.channel
    /\ \A i, j \in 1..Len(page) : i < j =>
          /\ page[i] # page[j]
          /\ page[i].createdAt >= page[j].createdAt
    /\ q.take = <<>> => Len(page) <= 50
    /\ q.take # <<>> => Len(page) <= q.take[1] /\ q.take[1] <= 100
    /\ Len(page) <= 100

RECURSIVE C25_Walks(_, _, _, _, _)
C25_Walks(channelKey, take, cursor, seen, pages) ==
    IF pages = 0 THEN { seen }
    ELSE UNION { IF page = <<>> THEN { seen }
                 ELSE C25_Walks(channelKey, take, <<page[Len(page)].id>>,
                                seen \o page, pages - 1)
                 : page \in listMessages(channelKey, take, cursor) }

C25_PaginationVisitsOnce ==
    \A c \in ChannelKey, take \in 1..2 :
        \A walk \in C25_Walks(c, take, <<>>, <<>>, Cardinality(rowsOf(c)) + 1) :
            /\ Len(walk) = Cardinality(rowsOf(c))
            /\ Range(walk) = rowsOf(c)
            /\ \A i, j \in 1..Len(walk) : i < j => walk[i].createdAt >= walk[j].createdAt

(* C26: what message.send does for an authenticated socket is decided by the
   role of its user and by the body, whatever rooms the socket is in: a send
   the role may not make is acked with the access refusal, any other send with
   content issues the create call; the continuation acks the id of the stored
   row, or the failure of the store, and emits message.new to the sockets in
   the room of the channel and to no other socket, so that a sender outside
   the room receives nothing while the members do *)
C26_Expected(t, call) ==
    IF call.saved # <<>> /\ call.data.channelKey \in rooms[t]
    THEN Append(inbox[t], [type |-> "message.new", msg |-> call.saved[1]])
    ELSE inbox[t]

C26_SendIgnoresMembership ==
    [][ /\ \A i \in 1..Len(microtasks) : resumed(i) =>
              /\ lastAck' # <<>>
              /\ lastAck'[1].sock = microtasks[i].sock
              /\ lastAck'[1].value =
                    (IF microtasks[i].saved # <<>>
                     THEN [ok |-> TRUE, messageId |-> microtasks[i].saved[1].id]
                     ELSE [ok |-> FALSE, error |-> "PersistenceError"])
              /\ \A t \in Sessions : inbox'[t] = C26_Expected(t, microtasks[i])
              /\ store' = store
        /\ \A s \in Sessions, body \in CoreSendBodies :
              (user[s] # <<>> /\ SendStart(s, body)) =>
                 /\ store' = store /\ inbox' = inbox
                 /\ IF body[1].channel = "support" /\ user[s][1].role # "ADMIN"
                    THEN /\ calls' = calls
                         /\ lastAck' # <<>>
                         /\ lastAck'[1].value = [ok |-> FALSE,
                                                 error |-> "No access to support channel"]
                    ELSE /\ lastAck' = <<>>
                         /\ BagCardinality(calls') = BagCardinality(calls) + 1
                         /\ \E c \in BagToSet(calls') :
                               /\ c.sock = s
                               /\ c.body = body[1]
                               /\ c.data.authorId = user[s][1].id
                               /\ c.data.authorRole = user[s][1].role
                               /\ CopiesIn(c, calls') = CopiesIn(c, calls) + 1 ]_vars

\* a send of a socket outside the room of general was acked with the id of its
\* row: the sender received no message.new, the other socket, in the room, did
C26_Witness ==
    \E s, t \in Sessions :
        /\ lastAck # <<>>
        /\ lastAck[1].sock = s
        /\ lastAck[1].value.ok
        /\ "general" \notin rooms[s]
        /\ newMessages(s) = <<>>
        /\ "general" \in rooms[t]
        /\ \E i \in 1..Len(newMessages(t)) :
              newMessages(t)[i].msg.id = lastAck[1].value.messageId

(* C27: a handshake emits exactly one event to the connecting client and no
   event to any other: auth.ok with the id and the role of the principal when
   the secret is set, the credential verifies and its payload has a sub, and
   auth.error in every other case; and it leaves the connection open *)
C27_Credential(hs) ==
    IF hs.authToken # <<>> /\ hs.authToken # <<EmptyString>> THEN hs.authToken
    ELSE IF hs.authorization # <<>> /\ hs.authorization[1].prefix = "Bearer "
         THEN hs.authorization[1].rest
         ELSE <<>>

C27_Verified(hs) ==
    /\ secret # <<>>
    /\ C27_Credential(hs) # <<>>
    /\ C27_Credential(hs)[1].key = secret[1]
    /\ \A i \in 1..Len(C27_Credential(hs)[1].exp) : now < C27_Credential(hs)[1].exp[i]
    /\ C27_Credential(hs)[1].sub # ""

C27_OneAuthEvent ==
    [][ \A s \in Sessions, hs \in HandshakeInputs : Connect(s, hs) =>
          /\ conn'[s] = "open"
          /\ \A t \in Sessions \ {s} : inbox'[t] = inbox[t] /\ conn'[t] = conn[t]
          /\ Len(inbox'[s]) = Len(inbox[s]) + 1
          /\ SubSeq(inbox'[s], 1, Len(inbox[s])) = inbox[s]
          /\ LET event == inbox'[s][Len(inbox'[s])]
             IN  IF C27_Verified(hs)
                 THEN event = [type |-> "auth.ok", id |-> C27_Credential(hs)[1].sub,
                               role |-> IF C27_Credential(hs)[1].role \in Role
                                        THEN C27_Credential(hs)[1].role ELSE "USER"]
                 ELSE event.type = "auth.error" ]_vars

\* one socket is open after a handshake answered auth.ok, the other after one
\* answered auth.error, each with that one event
C27_Witness ==
    \E s, t \in Sessions :
        /\ conn[s] = "open" /\ conn[t] = "open"
        /\ Len(inbox[s]) = 1 /\ inbox[s][1].type = "auth.ok"
        /\ Len(inbox[t]) = 1 /\ inbox[t][1].type = "auth.error"

(* C29: when the handshake field holds a non-empty token, the handshake is
   decided by that token alone, whatever the Authorization header holds (a
   token that does not verify is rejected even beside a header with a valid
   one); when the field is absent or empty, the header decides: a header that
   is absent, does not start with "Bearer " or holds nothing after it is
   answered Missing token, and any other by the token after the prefix *)
C29_Accepts(token) ==
    /\ token.key = secret[1]
    /\ \A i \in 1..Len(token.exp) : now < token.exp[i]
    /\ token.sub # ""

C29_Answer(s) == inbox'[s][Len(inbox'[s])]

C29_FieldBeforeHeader ==
    [][ \A s \in Sessions, hs \in HandshakeInputs : (secret # <<>> /\ Connect(s, hs)) =>
          IF hs.authToken # <<>> /\ hs.authToken # <<EmptyString>>
          THEN /\ user'[s] # <<>> <=> C29_Accepts(hs.authToken[1])
               /\ user'[s] # <<>> => user'[s][1].id = hs.authToken[1].sub
               /\ C29_Answer(s).type = "auth.error" => C29_Answer(s).error # "Missing token"
          ELSE IF \/ hs.authorization = <<>>
                  \/ hs.authorization[1].prefix # "Bearer "
                  \/ hs.authorization[1].rest = <<>>
          THEN /\ user'[s] = <<>>
               /\ C29_Answer(s) = [type |-> "auth.error", error |-> "Missing token"]
          ELSE /\ user'[s] # <<>> <=> C29_Accepts(hs.authorization[1].rest[1])
               /\ user'[s] # <<>> => user'[s][1].id = hs.authorization[1].rest[1].sub ]_vars

\* while the secret is set, one handshake was answered Missing token and
\* another was rejected for its token
C29_Witness ==
    \E s, t \in Sessions :
        /\ secret # <<>>
        /\ inbox[s] = <<[type |-> "auth.error", error |-> "Missing token"]>>
        /\ inbox[t] = <<[type |-> "auth.error", error |-> "JWT verify failed"]>>
        /\ user[s] = <<>> /\ user[t] = <<>>

(* C28: message.send decides in the order authentication, access to the
   channel, content: a socket without a user is acked UNAUTHORIZED whatever the
   body; a user whose role may not use the channel is acked the access refusal
   whatever the content (a USER sending blank content to support among them);
   only then blank or absent content is acked Invalid content; and a step that
   acks a refusal issues no create call, stores no row and emits no
   message.new *)
C28_Blank(content) ==
    content = <<>> \/ \A i \in 1..Len(content[1]) : content[1][i] = " "

C28_Error(s) == IF lastAck' # <<>> /\ lastAck'[1].sock = s /\ ~lastAck'[1].value.ok
                THEN <<lastAck'[1].value.error>> ELSE <<>>

C28_ChecksInOrder ==
    [][ /\ \A s \in {"s1"}, body \in SendBodies \ {<<>>} : SendStart(s, body) =>
              IF user[s] = <<>>
              THEN C28_Error(s) = <<"UNAUTHORIZED">>
              ELSE IF body[1].channel = "support" /\ user[s][1].role # "ADMIN"
              THEN C28_Error(s) = <<"No access to support channel">>
              ELSE IF body[1].content = <<NotAString>>
              THEN C28_Error(s) # <<>>
              ELSE IF C28_Blank(body[1].content)
              THEN C28_Error(s) = <<"Invalid content">>
              ELSE C28_Error(s) = <<>> /\ lastAck' = <<>>
        /\ (lastAck' # <<>> /\ ~lastAck'[1].value.ok) =>
              /\ BagCardinality(calls') <= BagCardinality(calls)
              /\ store' = store
              /\ \A t \in Sessions : newMessages(t)' = newMessages(t) ]_vars

\* a USER was acked the access refusal, with no create call issued
C28_Witness ==
    /\ lastAck # <<>>
    /\ lastAck[1].value = [ok |-> FALSE, error |-> "No access to support channel"]
    /\ user["s1"] # <<>>
    /\ user["s1"][1].role = "USER"
    /\ calls = EmptyBag /\ store = {}

(* C30: on an open socket channel.join and message.send have an outcome for
   every body, a missing body, content that is no string and a channel value
   that is no key among them; every join step acks its caller an object with a
   boolean ok; every send step acks ok: FALSE or issues the create call, whose
   continuation acks an object with a boolean ok; and a step that acks
   ok: FALSE leaves the connections, the users, the rooms, the store and the
   pending create calls as they were, and emits nothing but the auth.error
   that tells a socket without a user that it is not authenticated *)
C30_Ready(s) ==
    /\ conn[s] = "open"
    /\ idle
    /\ authErrorCount(s) < MaxAuthErrors
    /\ BagCardinality(calls) + Len(microtasks) + (nextId - 1) < MaxSends

C30_Acked(s) ==
    /\ lastAck' # <<>>
    /\ lastAck'[1].sock = s
    /\ lastAck'[1].value.ok \in BOOLEAN

C30_HandlersAlwaysAck ==
    /\ [](C30_Ready("s1") =>
            /\ \A body \in JoinBodies : ENABLED Join("s1", body)
            /\ \A body \in SendBodies : ENABLED SendStart("s1", body))
    /\ [][ /\ \A body \in JoinBodies : Join("s1", body) => C30_Acked("s1")
           /\ \A body \in SendBodies : SendStart("s1", body) =>
                 \/ C30_Acked("s1") /\ ~lastAck'[1].value.ok
                 \/ lastAck' = <<>> /\ BagCardinality(calls') = BagCardinality(calls) + 1
           /\ \A i \in 1..Len(microtasks) : resumed(i) => C30_Acked(microtasks[i].sock)
           /\ (lastAck' # <<>> /\ ~lastAck'[1].value.ok) =>
                 /\ UNCHANGED <<conn, user, rooms, store, nextId, calls>>
                 /\ \A t \in Sessions :
                       \/ inbox'[t] = inbox[t]
                       \/ /\ user[t] = <<>>
                          /\ inbox'[t] = Append(inbox[t], [type |-> "auth.error",
                                                           error |-> "UNAUTHORIZED"]) ]_vars

\* a send of content that is no string was acked ok: FALSE, with the message
\* of the failure, on a socket that is still open with its user
C30_Witness ==
    /\ lastAck # <<>>
    /\ lastAck[1].value = [ok |-> FALSE, error |-> "trim is not a function"]
    /\ user["s1"] # <<>>
    /\ conn["s1"] = "open"

(* C31: a step of a listing, flush or delete request emits no event to any
   socket, returns no ack and leaves the connection, the user and the rooms of
   every socket as they are; and every step that takes a row out of the store
   is a step of a flush or of a delete request, never one of the gateway *)
C31_SessionsUntouched ==
    /\ UNCHANGED <<conn, user, rooms, inbox>>
    /\ lastAck' = <<>>

C31_PathsAreSeparate ==
    [][ /\ \/ C31_SessionsUntouched
           \/ /\ ~Flush(bearer(AdminToken), "general")
              /\ \A id \in 1..nextId : ~DeleteFind(bearer(AdminToken), id)
              /\ \A id \in DOMAIN deletes : ~DeleteExec(id)
              /\ \A q \in FrameQueries : ~List(bearer(AdminToken), q)
        /\ ~(store \subseteq store') =>
              \/ Flush(bearer(AdminToken), "general")
              \/ \E id \in DOMAIN deletes : DeleteExec(id) ]_vars

\* a flush removed a row of general while the socket, which had received the
\* message.new of a row, is still in the room with that one event
C31_Witness ==
    /\ httpResp # <<>>
    /\ DOMAIN httpResp[1].body = {"deleted", "channelKey"}
    /\ httpResp[1].body.deleted = 1
    /\ removed # {}
    /\ "general" \in rooms["s1"]
    /\ Len(newMessages("s1")) = 1
    /\ user["s1"] # <<>>

(* C32: with socket s1 under role USER and socket s2 under role ADMIN of one
   subject, and a request credential of each role: whenever a join, a send, a
   listing, a flush or a delete can succeed for the USER, the same operation
   with the same input can succeed for the ADMIN with the same effect: the same
   room joined and the same ack, a create call with the same data but for
   authorRole, the same page of rows, the same flush answer, the same delete
   started *)
C32_Ready ==
    /\ idle
    /\ conn["s1"] = "open" /\ user["s1"] # <<>> /\ user["s1"][1].role = "USER"
    /\ conn["s2"] = "open" /\ user["s2"] # <<>> /\ user["s2"][1].role = "ADMIN"
    /\ user["s1"][1].id = user["s2"][1].id

C32_CallData ==
    [ channelKey : ChannelKey, authorId : {"alice"}, authorRole : {"USER"},
      content : { <<"h", "i">>, <<" ", "h", "i", " ">> } ]

C32_Issues(s, data) ==
    /\ lastAck' = <<>>
    /\ \E c \in BagToSet(calls') :
          /\ c.sock = s
          /\ c.data = data
          /\ CopiesIn(c, calls') = CopiesIn(c, calls) + 1

C32_Joined(s, channel) ==
    /\ lastAck' = <<[sock |-> s, value |-> [ok |-> TRUE, joined |-> channel]]>>
    /\ rooms'[s] = rooms[s] \cup {channel}

C32_AdminCanWhatUserCan ==
    C32_Ready =>
        /\ \A c \in ChannelInputs :
              ENABLED (Join("s1", <<[channel |-> c]>>) /\ C32_Joined("s1", c))
                 => ENABLED (Join("s2", <<[channel |-> c]>>) /\ C32_Joined("s2", c))
        /\ \A body \in CoreSendBodies :
           \A data \in { d \in C32_CallData : d.channelKey = body[1].channel } :
              ENABLED (SendStart("s1", body) /\ C32_Issues("s1", data))
                 => ENABLED (SendStart("s2", body)
                               /\ C32_Issues("s2", [data EXCEPT !.authorRole = "ADMIN"]))
        /\ \A q \in PrivilegeQueries :
           \A page \in listMessages(q.channel, DefaultTake, <<>>) :
              ENABLED (List(bearer(UserAlice), q)
                         /\ httpResp' = <<[status |-> 200, body |-> [messages |-> page]]>>)
                 => ENABLED (List(bearer(AdminAlice), q)
                               /\ httpResp' = <<[status |-> 200, body |-> [messages |-> page]]>>)
        /\ \A c \in ChannelKey :
              ENABLED (Flush(bearer(UserAlice), c) /\ httpResp'[1].status = 200
                         /\ "deleted" \in DOMAIN httpResp'[1].body)
                 => ENABLED (Flush(bearer(AdminAlice), c) /\ httpResp'[1].status = 200
                               /\ "deleted" \in DOMAIN httpResp'[1].body)
        /\ \A id \in 1..nextId :
              ENABLED (DeleteFind(bearer(UserAlice), id) /\ httpResp' = <<>>)
                 => ENABLED (DeleteFind(bearer(AdminAlice), id) /\ httpResp' = <<>>)

\* both sockets are connected, under USER and under ADMIN; the USER has joined
\* general, has a row of hers stored there and can send once more
C32_Witness ==
    /\ C32_Ready
    /\ "general" \in rooms["s1"]
    /\ \E m \in store : m.channelKey = "general" /\ m.authorRole = "USER"
    /\ ENABLED (SendStart("s1", <<[channel |-> "general",
                                  content |-> << <<" ", "h", "i", " ">> >>]>>)
                  /\ lastAck' = <<>>)

(* C33: what a user of role USER can observe does not depend on the support
   channel. The step that delivers the message.new of a support row adds
   nothing to the inbox of a socket whose user has role USER, and a step that
   changes the stored rows of support and not those of general leaves the
   possible pages of every listing of general unchanged, for every page size
   and every cursor a client may send *)
C33_Delivers ==
    /\ SendResume
    /\ microtasks[nextMicrotask].data.channelKey = "support"

C33_SupportStep ==
    /\ rowsOf("general")' = rowsOf("general")
    /\ rowsOf("support")' # rowsOf("support")

C33_Cursors == { <<>> } \cup { <<i>> : i \in 0..MaxSends }

C33_SupportIsInvisibleToUsers ==
    [][/\ C33_Delivers =>
            \A s \in Sessions :
                user[s] # <<>> /\ user[s][1].role = "USER" => inbox'[s] = inbox[s]
       /\ C33_SupportStep =>
            \A take \in 1..2, cursor \in C33_Cursors :
                listMessages("general", take, cursor)'
                    = listMessages("general", take, cursor)]_vars

(* C34: stored messages are conserved under every interleaving of sends,
   flushes and single deletes. The creates that succeeded are as many as the
   rows stored plus the rows removed, a removed id is never stored again and
   no two rows share an id; every step changes the number of stored rows by
   the creates that succeeded in it less what the answer of the step reports
   as deleted: the count of a flush, one for a delete answered deleted:true,
   nothing for any other answer; and a created row takes an id that no stored
   or removed row has *)
C34_Ids(rows) == { m.id : m \in rows }

C34_Reported(resp) ==
    IF resp = <<>> \/ resp[1].status # 200 \/ "deleted" \notin DOMAIN resp[1].body THEN 0
    ELSE IF "id" \in DOMAIN resp[1].body THEN 1
    ELSE resp[1].body.deleted

C34_Balance ==
    /\ nextId - 1 = Cardinality(store) + Cardinality(removed)
    /\ Cardinality(C34_Ids(store)) = Cardinality(store)
    /\ C34_Ids(store) \cap removed = {}
    /\ C34_Ids(store) \cup removed = 1..(nextId - 1)

C34_StepBalance ==
    /\ nextId' - nextId \in {0, 1}
    /\ Cardinality(store') = Cardinality(store) + (nextId' - nextId) - C34_Reported(httpResp')
    /\ Cardinality(removed') = Cardinality(removed) + C34_Reported(httpResp')
    /\ removed \subseteq removed'
    /\ C34_Ids(store' \ store) \cap (C34_Ids(store) \cup removed) = {}

C34_MessagesAreConserved ==
    []C34_Balance /\ [][C34_StepBalance]_vars

C34_Witness ==
    /\ httpResp # <<>>
    /\ httpResp[1].status = 500
    /\ removed # {}
    /\ store # {}
    /\ nextId - 1 = MaxSends

====
